---- MODULE Spec2Model ----
(***************************************************************************)
(* Bookmark restructuring: the planner (simulateRestructure), the          *)
(* operation executor, the snapshot manager and the orchestrator           *)
(* (executeRestructure), running against the browser's bookmark tree.      *)
(***************************************************************************)
EXTENDS Integers, Sequences, FiniteSets, TLC

\* ------------------------------------------------------------------ bounds
MaxOps == 3
MaxFresh == 3

\* ------------------------------------------------------------ JS sentinels
NoId == ""
NoUrl == ""
NoTitle == <<"">>
Null == "null"
NoIndex == -1

ReservedIds == {"0", "1", "2", "3"}
RootFolderIds == {"1", "2", "3"}
FreshIds == <<"n1", "n2", "n3", "n4", "n5", "n6", "n7", "n8">>

\* --------------------------------------------------------- sequence helpers
SeqToSet(s) == {s[i] : i \in DOMAIN s}

IndexIn(s, x) == IF \E i \in DOMAIN s : s[i] = x
                 THEN CHOOSE i \in DOMAIN s : s[i] = x /\ \A j \in 1..(i - 1) : s[j] # x
                 ELSE 0

RemoveElem(s, x) == SelectSeq(s, LAMBDA y : y # x)

\* insert x so that it ends at 0-based position k
InsertAt(s, k, x) == SubSeq(s, 1, k) \o <<x>> \o SubSeq(s, k + 1, Len(s))

Reverse(s) == [i \in 1..Len(s) |-> s[Len(s) + 1 - i]]

\* ---------------------------------------------- the browser's bookmark tree
\* live : [existing id -> [parentId, title, url, kids]]; a folder has url = NoUrl.
\* A title is kept as the sequence of its "/"-free pieces (see JoinPath below).
MkNode(p, t, u, k) == [parentId |-> p, title |-> t, url |-> u, kids |-> k]

Exists(t, id) == id \in DOMAIN t
IsFolder(t, id) == Exists(t, id) /\ t[id].url = NoUrl

RECURSIVE Subtree(_, _)
Subtree(t, id) ==
  LET RECURSIVE Over(_)
      Over(ks) == IF ks = <<>> THEN {} ELSE Subtree(t, Head(ks)) \cup Over(Tail(ks))
  IN {id} \cup Over(t[id].kids)

\* chrome.bookmarks.create: no parentId means "Other Bookmarks"
CreateParent(p) == IF p = NoId THEN "2" ELSE p

ChromeCanCreate(t, p, idx) ==
  /\ IsFolder(t, CreateParent(p))
  /\ CreateParent(p) # "0"
  /\ idx = NoIndex \/ (idx >= 0 /\ idx <= Len(t[CreateParent(p)].kids))

ChromeCreate(t, newId, p, title, url, idx) ==
  LET par == CreateParent(p)
      at == IF idx = NoIndex THEN Len(t[par].kids) ELSE idx
      grown == [id \in DOMAIN t \cup {newId} |->
                  IF id = newId THEN MkNode(par, title, url, <<>>) ELSE t[id]]
  IN [grown EXCEPT ![par].kids = InsertAt(t[par].kids, at, newId)]

ChromeCanMove(t, id, p, idx) ==
  /\ Exists(t, id)
  /\ id \notin ReservedIds
  /\ IsFolder(t, p)
  /\ p # "0"
  /\ p \notin Subtree(t, id)
  /\ idx = NoIndex \/ (idx >= 0 /\ idx <= Len(t[p].kids))

\* chrome.bookmarks.move: the index counts positions before the node is taken
\* out, so a move to the right inside one parent lands one place earlier.
ChromeMove(t, id, p, idx) ==
  LET old == t[id].parentId
      oldAt == IndexIn(t[old].kids, id) - 1
      detached == [t EXCEPT ![old].kids = RemoveElem(t[old].kids, id)]
      want == IF idx = NoIndex THEN Len(detached[p].kids) ELSE idx
      at == IF old = p /\ idx # NoIndex /\ want > oldAt THEN want - 1 ELSE want
  IN [detached EXCEPT ![p].kids = InsertAt(detached[p].kids, at, id),
                      ![id].parentId = p]

ChromeCanUpdate(t, id) == Exists(t, id) /\ id \notin ReservedIds

ChromeUpdate(t, id, title, url) ==
  [t EXCEPT ![id].title = IF title # NoTitle THEN title ELSE @,
            ![id].url = IF url # NoUrl THEN url ELSE @]

ChromeCanRemoveTree(t, id) == Exists(t, id) /\ id \notin ReservedIds

ChromeRemoveTree(t, id) ==
  LET gone == Subtree(t, id)
      par == t[id].parentId
      kept == [x \in DOMAIN t \ gone |-> t[x]]
  IN [kept EXCEPT ![par].kids = RemoveElem(t[par].kids, id)]

\* ------------------------------------------------------------- operations
\* An optional JS field is a sequence of length 0 (absent) or 1 (present).
Some(x) == <<x>>
None == <<>>

MkData(title, p, url) == [title |-> title, parentId |-> p, url |-> url]
MkDest(p, idx) == [parentId |-> p, index |-> idx]

MkOp(type, data, folder, tempId, id, dest) ==
  [type |-> type, data |-> data, folder |-> folder, tempId |-> tempId,
   id |-> id, destination |-> dest]

\* {type:'create', data:{title, parentId}, tempId}: the executor's create
CreateOp(title, p, tempId) == MkOp("create", Some(MkData(title, p, NoUrl)), None, tempId, NoId, None)
\* a faulty variant of PlannedCreateOp: the folder is planned under the Bookmarks Bar
PlannedCreateOpUnderBar(title, p, tempId) ==
  MkOp("create", None, Some(MkData(title, "1", NoUrl)), tempId, NoId, None)

\* {type:'create', folder:{title, parentId}, tempId}: the planner's create
PlannedCreateOp(title, p, tempId) == MkOp("create", None, Some(MkData(title, p, NoUrl)), tempId, NoId, None)
MoveOp(id, p, idx) == MkOp("move", None, None, NoId, id, Some(MkDest(p, idx)))
RemoveOp(id) == MkOp("remove", None, None, NoId, id, None)
InvalidOp == MkOp("invalid", None, None, NoId, NoId, None)

\* ---------------------------------------------------- BookmarkOperationExecutor
\* the comparator handed to operations.sort
CompareOps(a, b) ==
  IF a.type = "create" /\ b.type = "move" THEN 0 - 1
  ELSE IF a.type = "move" /\ b.type = "create" THEN 1
  ELSE 0

\* Array.prototype.sort as the browser's engine runs it on a short array: the
\* leading run is found (and reversed when strictly descending), then every later
\* element is placed by binary insertion.
RECURSIVE RunEnd(_, _, _)
RunEnd(s, idx, desc) ==
  IF idx > Len(s) THEN idx - 1
  ELSE LET o == CompareOps(s[idx], s[idx - 1])
       IN IF (desc /\ o >= 0) \/ (~desc /\ o < 0) THEN idx - 1
          ELSE RunEnd(s, idx + 1, desc)

RECURSIVE BinarySlot(_, _, _, _)
BinarySlot(s, pivot, left, right) ==
  IF left >= right THEN left
  ELSE LET mid == left + ((right - left) \div 2)
       IN IF CompareOps(pivot, s[mid + 1]) < 0
          THEN BinarySlot(s, pivot, left, mid)
          ELSE BinarySlot(s, pivot, mid + 1, right)

RECURSIVE InsertFrom(_, _)
InsertFrom(s, start) ==
  IF start > Len(s) THEN s
  ELSE LET pivot == s[start]
           slot == BinarySlot(s, pivot, 0, start - 1)
           placed == SubSeq(s, 1, slot) \o <<pivot>> \o SubSeq(s, slot + 1, start - 1)
                     \o SubSeq(s, start + 1, Len(s))
       IN InsertFrom(placed, start + 1)

SortOperations(s) ==
  IF Len(s) < 2 THEN s
  ELSE LET desc == CompareOps(s[2], s[1]) < 0
           run == RunEnd(s, 3, desc)
           lead == IF desc THEN Reverse(SubSeq(s, 1, run)) ELSE SubSeq(s, 1, run)
       IN InsertFrom(lead \o SubSeq(s, run + 1, Len(s)), run + 1)

validateOperation(op) ==
  CASE op.type = "create" -> op.data # None /\ op.data[1].title # NoTitle
    [] op.type = "move" -> op.id # NoId /\ op.destination # None
                           /\ op.destination[1].parentId # NoId
    [] op.type = "remove" -> op.id # NoId
    [] OTHER -> FALSE

\* a faulty variant of ResolveId: the id is passed on as it is
ResolveIdPassThrough(map, id) == id

\* this.idMap.has(id) ? this.idMap.get(id) : id
ResolveId(map, id) == IF id \in DOMAIN map THEN map[id] ELSE id

\* ------------------------------------------------------------------ state
VARIABLES
  live,        \* the browser's bookmark tree
  freshCount,  \* how many ids the browser has handed out
  ops,         \* the operations array handed to execute (sorted in place)
  opIdx,       \* position of the executor's loop in ops
  idMap,       \* executor.idMap: temporary id -> real id
  folderIds,   \* executor.folderIds
  execState,   \* "idle" | "running" | "resolved" | "rejected"
  execErr,     \* the error execute rejected with
  calls,       \* the repository calls made by the current execute, in order
  now,         \* the last reading of Date.now()
  store,       \* chrome.storage.local: snapshot id -> the object under bookmark_snapshot_<id>
  snapArray,   \* chrome.storage.local: the bookmarkSnapshots array (<<>> when unset)
  revision,    \* which of the two ChromeBookmarkTransactionManager revisions is wired
  pc,          \* executeRestructure: "idle" | "snapshot" | "execute" | "restore" | "done"
  runSnapshot, \* the snapshot createSnapshot returned to executeRestructure
  treeBefore,  \* the browser's tree when executeRestructure was called
  restoreArgs, \* the ids restoreSnapshot was called with, in order
  result,      \* what executeRestructure returned or threw
  rPhase,      \* restoreSnapshot: "idle" | "lookup" | "backup" | "walk" | "remove" | "done"
  rTarget,     \* the snapshot being restored
  rWork,       \* the nodes restoreBookmarkNode has still to visit, each with its parentId
  rExisting,   \* existingBookmarks: <<[id, notInSnapshot]>> in insertion order
  rRemIdx,     \* position of the removal loop in rExisting
  rOutcome,    \* "none" | "true" | "false" | "threw"
  rLog,        \* the update, move, create and remove calls of the current restore
  given,       \* the operations as the caller handed them over, before the sort
  planSrc,     \* simulateRestructure: the source structure
  planTarget,  \* simulateRestructure: the target structure
  planOps,     \* simulateRestructure: the operations returned
  planDone,    \* whether simulateRestructure has returned
  planAgain,   \* the operations a second simulateRestructure call returned (<<>> before it)
  planCalls,   \* how many times simulateRestructure has been called
  tmCall,      \* the transaction-manager call in progress or last made, with the storage it found
  tmReturn,    \* what the last createSnapshot, getSnapshots or cleanupSnapshots call settled with
  parseText,   \* parseStructureText: the text it is called with, line by line
  parsed,      \* parseStructureText: the nodes it built, in order, each with its parent
  parseDone    \* whether parseStructureText has returned

execVars == <<live, freshCount, ops, opIdx, idMap, folderIds, execState, execErr, calls>>
storeVars == <<now, store, snapArray>>
orchVars == <<pc, runSnapshot, treeBefore, restoreArgs, result>>
restoreVars == <<rPhase, rTarget, rWork, rExisting, rRemIdx, rOutcome, rLog>>
parseVars == <<parseText, parsed, parseDone>>
planVars == <<planSrc, planTarget, planOps, planDone, planAgain, planCalls, parseVars>>
tmVars == <<tmCall, tmReturn>>
vars == <<execVars, storeVars, revision, orchVars, restoreVars, given, planVars, tmVars>>

NoError == [message |-> "", seq |-> 0]
MkError(msg, n) == [message |-> msg, seq |-> n]

MkCall(fn, id, title, p, idx, ok, k) ==
  [fn |-> fn, id |-> id, title |-> title, parentId |-> p, index |-> idx, ok |-> ok, op |-> k]

EmptyMap == [x \in {} |-> NoId]
\* a faulty variant of MapSet: nothing is recorded
MapSetNothing(map, k, v) == map

MapSet(map, k, v) == [x \in DOMAIN map \cup {k} |-> IF x = k THEN v ELSE map[x]]

\* the trees the browser starts with: root "0", its folders "1" and "2"
RootOnly ==
  [id \in {"0", "1", "2"} |->
     CASE id = "0" -> MkNode(Null, <<"">>, NoUrl, <<"1", "2">>)
       [] id = "1" -> MkNode("0", <<"Bookmarks Bar">>, NoUrl, <<>>)
       [] id = "2" -> MkNode("0", <<"Other Bookmarks">>, NoUrl, <<>>)]

RECURSIVE Plant(_, _)
Plant(t, adds) ==
  IF adds = <<>> THEN t
  ELSE LET a == Head(adds)
       IN Plant(ChromeCreate(t, a.id, a.parentId, a.title, a.url, NoIndex), Tail(adds))

Seed(id, p, title, url) == [id |-> id, parentId |-> p, title |-> title, url |-> url]

TreeEmpty == RootOnly
TreeFlat == Plant(RootOnly, <<Seed("10", "1", <<"Spec">>, "https://example.com/spec"),
                              Seed("11", "1", <<"Notes">>, "https://example.com/notes")>>)
TreeNested == Plant(RootOnly, <<Seed("10", "1", <<"Spec">>, "https://example.com/spec"),
                                Seed("5", "1", <<"Docs">>, NoUrl),
                                Seed("11", "5", <<"Notes">>, "https://example.com/notes")>>)

\* ------------------------------------------------- executor: execute(operations)
\* a faulty variant of ExecuteCall: every call starts with an empty temp-id map
ExecuteCallForgetting(list) ==
  /\ execState' = (IF list = <<>> THEN "resolved" ELSE "running")
  /\ ops' = SortOperations(list)
  /\ opIdx' = 1
  /\ execErr' = NoError
  /\ calls' = <<>>
  /\ idMap' = EmptyMap
  /\ UNCHANGED <<live, freshCount, folderIds>>

ExecuteCall(list) ==
  /\ execState' = (IF list = <<>> THEN "resolved" ELSE "running")
  /\ ops' = SortOperations(list)
  /\ opIdx' = 1
  /\ execErr' = NoError
  /\ calls' = <<>>
  /\ UNCHANGED <<live, freshCount, idMap, folderIds>>

ExecOnly == UNCHANGED <<storeVars, revision, orchVars, restoreVars, given, planVars, tmVars>>

CurOp == ops[opIdx]
Looping == execState = "running" /\ opIdx <= Len(ops)

\* a faulty variant of Reject: the error is only logged and the loop goes on
RejectAndContinue(fn, call) ==
  /\ opIdx' = opIdx + 1
  /\ calls' = Append(calls, call)
  /\ UNCHANGED <<live, freshCount, idMap, folderIds, execState, execErr>>

Reject(fn, call) ==
  /\ execState' = "rejected"
  /\ execErr' = MkError(fn, Len(calls) + 1)
  /\ calls' = Append(calls, call)
  /\ UNCHANGED <<live, freshCount, idMap, folderIds, opIdx>>

\* a faulty variant of ExecSkipInvalid: the invalid operation ends the run
ExecAbortOnInvalid ==
  /\ ExecOnly
  /\ Looping
  /\ ~validateOperation(CurOp)
  /\ execState' = "rejected"
  /\ execErr' = MkError("invalid", Len(calls))
  /\ UNCHANGED <<live, freshCount, ops, opIdx, idMap, folderIds, calls>>

ExecSkipInvalid ==
  /\ ExecOnly
  /\ Looping
  /\ ~validateOperation(CurOp)
  /\ opIdx' = opIdx + 1
  /\ UNCHANGED <<live, freshCount, ops, idMap, folderIds, execState, execErr, calls>>

ExecCreate ==
  /\ ExecOnly
  /\ Looping
  /\ validateOperation(CurOp)
  /\ CurOp.type = "create"
  /\ LET d == CurOp.data[1]
         p == IF d.parentId # NoId THEN ResolveId(idMap, d.parentId) ELSE d.parentId
         fn == IF d.url # NoUrl THEN "create" ELSE "createFolder"
         newId == FreshIds[freshCount + 1]
     IN /\ ops' = [ops EXCEPT ![opIdx].data = Some([d EXCEPT !.parentId = p])]
        /\ \E fail \in BOOLEAN :
             IF ~fail /\ ChromeCanCreate(live, p, NoIndex)
             THEN /\ freshCount < MaxFresh
                  /\ live' = ChromeCreate(live, newId, p, d.title, d.url, NoIndex)
                  /\ freshCount' = freshCount + 1
                  /\ folderIds' = (IF d.url # NoUrl THEN folderIds ELSE folderIds \cup {newId})
                  /\ idMap' = (IF CurOp.tempId # NoId THEN MapSet(idMap, CurOp.tempId, newId) ELSE idMap)
                  /\ calls' = Append(calls, MkCall(fn, newId, d.title, p, NoIndex, TRUE, opIdx))
                  /\ opIdx' = opIdx + 1
                  /\ UNCHANGED <<execState, execErr>>
             ELSE Reject(fn, MkCall(fn, NoId, d.title, p, NoIndex, FALSE, opIdx))

ExecMove ==
  /\ ExecOnly
  /\ Looping
  /\ validateOperation(CurOp)
  /\ CurOp.type = "move"
  /\ LET realId == ResolveId(idMap, CurOp.id)
         dest == CurOp.destination[1]
         p == IF dest.parentId # NoId THEN ResolveId(idMap, dest.parentId) ELSE dest.parentId
     IN \E fail \in BOOLEAN :
          IF ~fail /\ ChromeCanMove(live, realId, p, dest.index)
          THEN /\ live' = ChromeMove(live, realId, p, dest.index)
               /\ calls' = Append(calls, MkCall("move", realId, NoTitle, p, dest.index, TRUE, opIdx))
               /\ opIdx' = opIdx + 1
               /\ UNCHANGED <<freshCount, ops, idMap, folderIds, execState, execErr>>
          ELSE /\ Reject("move", MkCall("move", realId, NoTitle, p, dest.index, FALSE, opIdx))
               /\ UNCHANGED ops

ExecRemove ==
  /\ ExecOnly
  /\ Looping
  /\ validateOperation(CurOp)
  /\ CurOp.type = "remove"
  /\ LET realId == ResolveId(idMap, CurOp.id)
     IN \E fail \in BOOLEAN :
          IF ~fail /\ ChromeCanRemoveTree(live, realId)
          THEN /\ live' = ChromeRemoveTree(live, realId)
               /\ calls' = Append(calls, MkCall("remove", realId, NoTitle, NoId, NoIndex, TRUE, opIdx))
               /\ opIdx' = opIdx + 1
               /\ UNCHANGED <<freshCount, ops, idMap, folderIds, execState, execErr>>
          ELSE /\ Reject("remove", MkCall("remove", realId, NoTitle, NoId, NoIndex, FALSE, opIdx))
               /\ UNCHANGED ops

ExecReturn ==
  /\ ExecOnly
  /\ execState = "running"
  /\ opIdx > Len(ops)
  /\ execState' = "resolved"
  /\ UNCHANGED <<live, freshCount, ops, opIdx, idMap, folderIds, execErr, calls>>


\* ------------------------------------------------- repository.getTree()
MkTreeNode(id, p, idx, title, url, children) ==
  [id |-> id, parentId |-> p, index |-> idx, title |-> title, url |-> url,
   children |-> children]

RECURSIVE BuildNode(_, _, _)
BuildNode(t, id, idx) ==
  MkTreeNode(id, t[id].parentId, idx, t[id].title, t[id].url,
             [i \in 1..Len(t[id].kids) |-> BuildNode(t, t[id].kids[i], i - 1)])

getTree(t) == <<BuildNode(t, "0", 0)>>

\* ------------------------------------------ ChromeBookmarkTransactionManager
MaxClock == 3

\* a reading of Date.now(): the clock never runs backwards
ClockReadings(from) == {t \in from..(from + 1) : t <= MaxClock}

MkSnapshot(ts, tree, id, name) == [timestamp |-> ts, tree |-> tree, id |-> id, name |-> name]
NoSnapshot == MkSnapshot(0, <<>>, 0, "")

\* createSnapshot(name), first half: the snapshot object built from the tree read
\* and the two clock readings (timestamp, then id)
NewSnapshot(t, name, ts, idClock) ==
  MkSnapshot(ts, getTree(t), idClock, IF name # "" THEN name ELSE "Snapshot <date>")

\* createSnapshot(name), second half: storage.local.set({bookmark_snapshot_<id>: snapshot})
StoreSnapshot(st, snap) == MapSet(st, snap.id, snap)

\* storage keys come back in key order
RECURSIVE KeysAscending(_)
KeysAscending(keys) ==
  IF keys = {} THEN <<>>
  ELSE LET k == CHOOSE x \in keys : \A y \in keys : x <= y
       IN <<k>> \o KeysAscending(keys \ {k})

\* snapshots.sort((a, b) => b.timestamp - a.timestamp): stable, newest first
RECURSIVE NewestFirst(_)
NewestFirst(s) ==
  IF s = <<>> THEN <<>>
  ELSE LET top == CHOOSE i \in DOMAIN s :
                    /\ \A j \in DOMAIN s : s[j].timestamp <= s[i].timestamp
                    /\ \A j \in 1..(i - 1) : s[j].timestamp < s[i].timestamp
       IN <<s[top]>> \o NewestFirst(SubSeq(s, 1, top - 1) \o SubSeq(s, top + 1, Len(s)))

\* getSnapshots(), second revision, individual keys
SnapshotsFromKeys(st) ==
  LET keys == KeysAscending(DOMAIN st)
  IN NewestFirst([i \in 1..Len(keys) |->
                    MkSnapshot(st[keys[i]].timestamp, st[keys[i]].tree, keys[i], st[keys[i]].name)])

\* getSnapshots(), second revision: the array when it is there, else the keys
getSnapshots(st, arr) == IF arr # <<>> THEN arr ELSE SnapshotsFromKeys(st)

\* restoreSnapshot, second revision: find in getSnapshots(), else the individual key
FindSnapshot(st, arr, id) ==
  LET all == getSnapshots(st, arr)
      hits == SelectSeq(all, LAMBDA x : x.id = id)
  IN IF hits # <<>> THEN Some(hits[1])
     ELSE IF id \in DOMAIN st THEN Some([st[id] EXCEPT !.id = id])
     ELSE None

\* a faulty variant of FindByKey: an unknown id falls back to some stored snapshot
FindByKeyOrAny(st, id) ==
  IF id \in DOMAIN st THEN Some(st[id])
  ELSE IF DOMAIN st # {} THEN Some([st[CHOOSE k \in DOMAIN st : TRUE] EXCEPT !.id = id])
  ELSE None

\* restoreSnapshot, first revision: storage.local.get([bookmark_snapshot_<id>])
FindByKey(st, id) == IF id \in DOMAIN st THEN Some(st[id]) ELSE None

\* mapAllBookmarks: every live node but the root, in traversal order
RECURSIVE Preorder(_, _)
Preorder(t, id) ==
  LET RECURSIVE Over(_)
      Over(ks) == IF ks = <<>> THEN <<>> ELSE Preorder(t, Head(ks)) \o Over(Tail(ks))
  IN <<id>> \o Over(t[id].kids)

mapAllBookmarks(t) ==
  LET ids == SelectSeq(Preorder(t, "0"), LAMBDA x : x # "0")
  IN [i \in 1..Len(ids) |-> [id |-> ids[i], notInSnapshot |-> TRUE]]

\* restoreBookmarkNode's recursion, unrolled: the nodes it goes on to treat (past
\* the root and the three root folders), each with the parentId it is given
RECURSIVE WalkList(_, _)
WalkList(node, p) ==
  LET RECURSIVE Over(_, _)
      Over(cs, q) == IF cs = <<>> THEN <<>> ELSE WalkList(Head(cs), q) \o Over(Tail(cs), q)
  IN IF node.id = "0" THEN Over(node.children, Null)
     ELSE IF node.id \in RootFolderIds THEN Over(node.children, node.id)
     ELSE <<[node |-> node, parentId |-> p]>> \o Over(node.children, node.id)

RECURSIVE WalkRoots(_)
WalkRoots(tree) == IF tree = <<>> THEN <<>> ELSE WalkList(Head(tree), Null) \o WalkRoots(Tail(tree))

\* existingBookmarks.get(id).notInSnapshot = false
MarkFound(existing, id) ==
  [i \in 1..Len(existing) |->
     IF existing[i].id = id THEN [existing[i] EXCEPT !.notInSnapshot = FALSE] ELSE existing[i]]

\* --------------------------------------------------------- restoreSnapshot
MkRestoreCall(fn, id, p, idx, ok) == [fn |-> fn, id |-> id, parentId |-> p, index |-> idx, ok |-> ok]

RestoreOnly ==
  UNCHANGED <<ops, opIdx, idMap, folderIds, execState, execErr, calls, revision, orchVars,
              given, planVars, tmVars>>

\* a call of one of the transaction manager's methods: its name, its argument
\* (maxToKeep, or createSnapshot's name) and the storage as the call found it
MkTmCall(fn, n, st, arr) ==
  [fn |-> fn, n |-> n, before |-> st, arrayBefore |-> arr, seq |-> tmCall.seq + 1]
NoTmCall == [fn |-> "none", n |-> 0, before |-> <<>>, arrayBefore |-> <<>>, seq |-> 0]

\* how a call settled: "returned" with the list it resolved to, or "threw"
MkTmReturn(kind, list) == [kind |-> kind, list |-> list]
NoTmReturn == MkTmReturn("none", <<>>)

\* restoreSnapshot(id) is entered
RestoreCall(id) ==
  /\ rPhase' = "lookup"
  /\ rTarget' = [NoSnapshot EXCEPT !.id = id]
  /\ rWork' = <<>>
  /\ rExisting' = <<>>
  /\ rRemIdx' = 1
  /\ rOutcome' = "none"
  /\ rLog' = <<>>
  /\ tmCall' = MkTmCall("restoreSnapshot", 0, store, snapArray)

RestoreReturns(outcome) ==
  /\ rPhase' = "done"
  /\ rOutcome' = outcome

\* the snapshot is looked up in storage
RestoreLookup ==
  /\ rPhase = "lookup"
  /\ RestoreOnly
  /\ UNCHANGED <<live, freshCount, now, store, rWork, rExisting, rRemIdx, rLog>>
  /\ IF revision = 2
     THEN LET found == FindSnapshot(store, snapArray, rTarget.id)
          IN /\ snapArray' = getSnapshots(store, snapArray)
             /\ IF found = None
                THEN RestoreReturns("false") /\ UNCHANGED rTarget
                ELSE rTarget' = found[1] /\ rPhase' = "backup" /\ UNCHANGED rOutcome
     ELSE /\ UNCHANGED snapArray
          /\ \E lastError \in BOOLEAN :
               LET found == FindByKey(store, rTarget.id)
               IN IF lastError THEN RestoreReturns("threw") /\ UNCHANGED rTarget
                  ELSE IF found = None THEN RestoreReturns("false") /\ UNCHANGED rTarget
                  ELSE rTarget' = found[1] /\ rPhase' = "backup" /\ UNCHANGED rOutcome

\* createSnapshot before restoring, then mapAllBookmarks
RestoreBackup ==
  /\ rPhase = "backup"
  /\ RestoreOnly
  /\ UNCHANGED <<live, freshCount, snapArray, rTarget, rRemIdx, rLog>>
  /\ \E ts \in ClockReadings(now) : \E idClock \in ClockReadings(ts) :
     \E failed \in {"none", "getTree", "set", "map"} :
       /\ now' = idClock
       /\ store' = (IF failed \in {"none", "map"}
                    THEN StoreSnapshot(store, NewSnapshot(live,
                           IF revision = 2 THEN "Auto-backup before restore" ELSE "Before restore",
                           ts, idClock))
                    ELSE store)
       /\ IF failed = "none"
          THEN /\ rExisting' = mapAllBookmarks(live)
               /\ rWork' = (IF revision = 2 THEN WalkRoots(rTarget.tree)
                            ELSE WalkList(rTarget.tree[1], Null))
               /\ rPhase' = "walk"
               /\ UNCHANGED rOutcome
          ELSE RestoreReturns("false") /\ UNCHANGED <<rExisting, rWork>>

\* restoreBookmarkNode for one node of the snapshot (its children follow in rWork)
RestoreNode ==
  /\ rPhase = "walk"
  /\ rWork # <<>>
  /\ RestoreOnly
  /\ UNCHANGED <<storeVars, rPhase, rTarget, rRemIdx, rOutcome>>
  /\ rWork' = Tail(rWork)
  /\ LET node == Head(rWork).node
         p == Head(rWork).parentId
         id == node.id
         newId == FreshIds[freshCount + 1]
     IN /\ rExisting' = MarkFound(rExisting, id)
        /\ \E getFails \in BOOLEAN, mutationFails \in BOOLEAN :
             IF ~getFails /\ Exists(live, id)
             THEN \* update in place, then move if the parent differs
               LET wantsUpdate == node.title # NoTitle \/ node.url # NoUrl
                   updated == wantsUpdate /\ ~mutationFails /\ ChromeCanUpdate(live, id)
                   afterUpdate == IF updated THEN ChromeUpdate(live, id, node.title, node.url) ELSE live
                   updateLog == IF wantsUpdate
                                THEN <<MkRestoreCall("update", id, NoId, NoIndex, updated)>>
                                ELSE <<>>
                   reachesMove == (wantsUpdate => updated) /\ live[id].parentId # p
               IN /\ freshCount' = freshCount
                  /\ IF reachesMove
                     THEN \E moveFails \in BOOLEAN :
                            LET moved == ~moveFails /\ ChromeCanMove(afterUpdate, id, p, node.index)
                            IN /\ live' = (IF moved THEN ChromeMove(afterUpdate, id, p, node.index)
                                           ELSE afterUpdate)
                               /\ rLog' = rLog \o updateLog
                                          \o <<MkRestoreCall("move", id, p, node.index, moved)>>
                     ELSE /\ live' = afterUpdate
                          /\ rLog' = rLog \o updateLog
             ELSE \* create a new node under the parentId given
               LET created == ~mutationFails /\ ChromeCanCreate(live, p, node.index)
               IN IF created
                  THEN /\ freshCount < MaxFresh
                       /\ live' = ChromeCreate(live, newId, p, node.title, node.url, node.index)
                       /\ freshCount' = freshCount + 1
                       /\ rLog' = Append(rLog, MkRestoreCall("create", newId, p, node.index, TRUE))
                  ELSE /\ UNCHANGED <<live, freshCount>>
                       /\ rLog' = Append(rLog, MkRestoreCall("create", NoId, p, node.index, FALSE))

\* the walk is over: the removal loop starts
RestoreWalkDone ==
  /\ rPhase = "walk"
  /\ rWork = <<>>
  /\ RestoreOnly
  /\ rPhase' = "remove"
  /\ rRemIdx' = 1
  /\ UNCHANGED <<live, freshCount, storeVars, rTarget, rWork, rExisting, rOutcome, rLog>>

\* a faulty variant of removeBookmark: no id is skipped
removeBookmarkSkipsNothing(id) == FALSE

\* removeBookmark(id): the reserved ids are skipped, an error is only logged
removeBookmarkSkips(id) == id \in ReservedIds

\* one turn of the loop over existingBookmarks
RestoreRemove ==
  /\ rPhase = "remove"
  /\ rRemIdx <= Len(rExisting)
  /\ RestoreOnly
  /\ UNCHANGED <<freshCount, storeVars, rPhase, rTarget, rWork, rExisting, rOutcome>>
  /\ rRemIdx' = rRemIdx + 1
  /\ LET e == rExisting[rRemIdx]
     IN IF ~e.notInSnapshot \/ removeBookmarkSkips(e.id)
        THEN UNCHANGED <<live, rLog>>
        ELSE \E fails \in BOOLEAN :
               LET removed == ~fails /\ ChromeCanRemoveTree(live, e.id)
               IN /\ live' = (IF removed THEN ChromeRemoveTree(live, e.id) ELSE live)
                  /\ rLog' = Append(rLog, MkRestoreCall("remove", e.id, NoId, NoIndex, removed))

\* restoreSnapshot returns true
RestoreFinish ==
  /\ rPhase = "remove"
  /\ rRemIdx > Len(rExisting)
  /\ RestoreOnly
  /\ RestoreReturns("true")
  /\ UNCHANGED <<live, freshCount, storeVars, rTarget, rWork, rExisting, rRemIdx, rLog>>

\* ------------------------------------------------ BookmarkRestructuringService
\* A title, a path and a Name Index key are strings; each is kept as the sequence
\* of its "/"-free pieces, so `${path}/${title}` is concatenation and
\* name.includes('/') is Len(name) > 1.  The empty string is <<"">>.
Str(s) == <<s>>
EmptyStr == <<"">>
JoinPath(path, title) == IF path # EmptyStr THEN path \o title ELSE title
IncludesSlash(name) == Len(name) > 1

TempIds == <<"temp_1", "temp_2", "temp_3", "temp_4", "temp_5", "temp_6">>

\* the nodes of a target structure
Folder(title, children) == [type |-> "folder", title |-> title, url |-> NoUrl, children |-> Some(children)]
Bookmark(title, url) == [type |-> "bookmark", title |-> title, url |-> url, children |-> None]

MkEntry(id, title, path, url, isNew) ==
  [id |-> id, title |-> title, path |-> path, url |-> url, isNew |-> isNew]

\* createNameToIdMapping(nodes, map, path)
RECURSIVE createNameToIdMapping(_, _, _)
createNameToIdMapping(nodes, map, path) ==
  IF nodes = <<>> THEN map
  ELSE LET node == Head(nodes)
           nodePath == JoinPath(path, node.title)
           entry == MkEntry(node.id, node.title, nodePath, node.url, FALSE)
           byTitle == MapSet(map, node.title, entry)
           byPath == MapSet(byTitle, nodePath, entry)
           below == createNameToIdMapping(node.children, byPath, nodePath)
       IN createNameToIdMapping(Tail(nodes), below, path)

\* createMissingFolders: processLevel(structure, currentParentId), threading the
\* Name Index, the operations, the createdFolders map and the ids drawn so far
RECURSIVE processLevel(_, _, _)
processLevel(structure, currentParentId, st) ==
  IF structure = <<>> THEN st
  ELSE LET item == Head(structure)
           known == item.title \in DOMAIN st.map
           tempId == TempIds[st.drawn + 1]
           folderId == IF known THEN st.map[item.title].id ELSE tempId
           planned ==
             IF known THEN st
             ELSE [st EXCEPT
                     !.operations = Append(@, PlannedCreateOp(item.title, currentParentId, tempId)),
                     !.map = MapSet(@, item.title, MkEntry(folderId, item.title, EmptyStr, NoUrl, TRUE)),
                     !.drawn = @ + 1]
           recorded == [planned EXCEPT !.folders = MapSet(@, item.title, folderId)]
           below == IF item.children # None
                    THEN processLevel(item.children[1], folderId, recorded)
                    ELSE recorded
       IN IF item.type = "folder"
          THEN processLevel(Tail(structure), currentParentId, below)
          ELSE processLevel(Tail(structure), currentParentId, st)

createMissingFolders(targetStructure, nameToIdMap) ==
  processLevel(targetStructure, "1",
               [map |-> nameToIdMap, operations |-> <<>>, folders |-> EmptyMap, drawn |-> 0])

\* moveItemsToTargetStructure: the folder and bookmark ids known from the Name Index
SeedFolderIds(map, folders) ==
  {map[k].id : k \in {n \in DOMAIN map : map[n].url = NoUrl /\ ~IncludesSlash(n)}}
  \cup {folders[k] : k \in DOMAIN folders}
  \cup {"0", "1", "2", "3"}

\* a faulty variant of SeedBookmarkIds: no id is known to be a bookmark
SeedBookmarkIdsNone(map) == {}

SeedBookmarkIds(map) == {map[k].id : k \in {n \in DOMAIN map : map[n].url # NoUrl}}

\* a faulty variant of ValidParent: every level is planned under the Bookmarks Bar
ValidParentAlwaysBar(parentId, st) == "1"

\* processTargetLevel's check of the parent on entry
ValidParent(parentId, st) ==
  IF parentId \in st.bookmarkIds \/ parentId \notin st.folderIds THEN "1" ELSE parentId

\* a faulty variant of processTargetItems: a bookmark the Name Index lacks takes
\* no sibling position
RECURSIVE processTargetItemsPacked(_, _, _, _, _)
processTargetItemsPacked(structure, parentId, index, env, st) ==
  IF structure = <<>> THEN st
  ELSE LET item == Head(structure)
           rest == Tail(structure)
       IN IF item.type = "folder"
          THEN LET folderId ==
                     IF item.title \in DOMAIN env.folders /\ env.folders[item.title] # NoId
                     THEN env.folders[item.title]
                     ELSE IF item.title \in DOMAIN env.map THEN env.map[item.title].id ELSE NoId
                   moved == [st EXCEPT !.folderIds = @ \cup {folderId},
                                       !.operations = Append(@, MoveOp(folderId, parentId, index))]
                   below == IF item.children # None
                            THEN processTargetItemsPacked(item.children[1], ValidParent(folderId, moved),
                                                    0, env, moved)
                            ELSE moved
               IN processTargetItemsPacked(rest, parentId, index + 1, env,
                                     IF folderId # NoId THEN below ELSE st)
          ELSE IF item.type = "bookmark"
          THEN LET known == item.title \in DOMAIN env.map
                   info == env.map[item.title]
                   noted == [st EXCEPT !.bookmarkIds = @ \cup {info.id}]
                   moved == IF parentId \in noted.folderIds
                            THEN [noted EXCEPT !.operations = Append(@, MoveOp(info.id, parentId, index))]
                            ELSE noted
               IN IF known THEN processTargetItemsPacked(rest, parentId, index + 1, env, moved)
                  ELSE processTargetItemsPacked(rest, parentId, index, env, st)
          ELSE processTargetItemsPacked(rest, parentId, index, env, st)

\* processTargetLevel(structure, parentId, index), with the parent already checked
RECURSIVE processTargetItems(_, _, _, _, _)
processTargetItems(structure, parentId, index, env, st) ==
  IF structure = <<>> THEN st
  ELSE LET item == Head(structure)
           rest == Tail(structure)
       IN IF item.type = "folder"
          THEN LET folderId ==
                     IF item.title \in DOMAIN env.folders /\ env.folders[item.title] # NoId
                     THEN env.folders[item.title]
                     ELSE IF item.title \in DOMAIN env.map THEN env.map[item.title].id ELSE NoId
                   moved == [st EXCEPT !.folderIds = @ \cup {folderId},
                                       !.operations = Append(@, MoveOp(folderId, parentId, index))]
                   below == IF item.children # None
                            THEN processTargetItems(item.children[1], ValidParent(folderId, moved),
                                                    0, env, moved)
                            ELSE moved
               IN processTargetItems(rest, parentId, index + 1, env,
                                     IF folderId # NoId THEN below ELSE st)
          ELSE IF item.type = "bookmark"
          THEN LET known == item.title \in DOMAIN env.map
                   info == env.map[item.title]
                   noted == [st EXCEPT !.bookmarkIds = @ \cup {info.id}]
                   moved == IF parentId \in noted.folderIds
                            THEN [noted EXCEPT !.operations = Append(@, MoveOp(info.id, parentId, index))]
                            ELSE noted
               IN processTargetItems(rest, parentId, index + 1, env, IF known THEN moved ELSE st)
          ELSE processTargetItems(rest, parentId, index, env, st)

\* a faulty variant of moveItemsToTargetStructure: the creates of pass 1 are put
\* behind the moves
moveItemsThenCreates(targetStructure, nameToIdMap, created) ==
  LET env == [map |-> nameToIdMap, folders |-> created.folders]
      st0 == [operations |-> <<>>,
              folderIds |-> SeedFolderIds(nameToIdMap, created.folders),
              bookmarkIds |-> SeedBookmarkIds(nameToIdMap)]
  IN processTargetItems(targetStructure, ValidParent("1", st0), 0, env, st0).operations
     \o created.operations

moveItemsToTargetStructure(targetStructure, nameToIdMap, created) ==
  LET env == [map |-> nameToIdMap, folders |-> created.folders]
      st0 == [operations |-> created.operations,
              folderIds |-> SeedFolderIds(nameToIdMap, created.folders),
              bookmarkIds |-> SeedBookmarkIds(nameToIdMap)]
  IN processTargetItems(targetStructure, ValidParent("1", st0), 0, env, st0).operations

simulateRestructure(sourceStructure, targetStructure) ==
  LET nameToIdMap == createNameToIdMapping(sourceStructure, EmptyMap, EmptyStr)
      created == createMissingFolders(targetStructure, nameToIdMap)
  IN moveItemsToTargetStructure(targetStructure, created.map, created)

\* ------------------------------------------------------- parseStructureText
\* A line of the text is its leading whitespace, character by character, and its
\* trimmed content as the sequence of its space-separated tokens (<<>> for a
\* blank line); a title or a url the parser cuts out of a line is a sequence of
\* tokens too.
MkLine(indent, tokens) == [indent |-> indent, tokens |-> tokens]

\* token.includes('http://') || token.includes('https://')
HasHttp(token) == token \in {"https://a.com/p", "http://"}

\* /(https?:\/\/[^\s]+)/ matches in the token: the scheme and one character more
MatchesUrl(token) == token \in {"https://a.com/p"}

\* trimmedLine.startsWith('//') || trimmedLine.startsWith('#')
IsComment(tokens) == Head(tokens) \in {"#note", "//note"}

\* trimmedLine.split(' - '): the pieces between the "-" tokens that have a token
\* on either side
RECURSIVE SplitOnDash(_, _, _)
SplitOnDash(tokens, i, piece) ==
  IF i > Len(tokens) THEN <<piece>>
  ELSE IF tokens[i] = "-" /\ 1 < i /\ i < Len(tokens)
       THEN <<piece>> \o SplitOnDash(tokens, i + 1, <<>>)
       ELSE SplitOnDash(tokens, i + 1, Append(piece, tokens[i]))

MkParsed(type, title, url, parent, line) ==
  [type |-> type, title |-> title, url |-> url, parent |-> parent, line |-> line]

\* while (stack.length > 1 && stack[stack.length - 1].level >= level) stack.pop()
RECURSIVE PopTo(_, _)
PopTo(stack, level) ==
  IF Len(stack) > 1 /\ stack[Len(stack)].level >= level
  THEN PopTo(SubSeq(stack, 1, Len(stack) - 1), level)
  ELSE stack

\* the loop over the non-blank lines; a node's parent is the position in the
\* result of the folder node it was pushed to, 0 for rootNode
RECURSIVE ParseLines(_, _, _)
ParseLines(lines, stack, nodes) ==
  IF lines = <<>> THEN nodes
  ELSE LET line == Head(lines)
           trimmedLine == line.tokens
           level == Len(line.indent) \div 2
           isFolder == \A i \in DOMAIN trimmedLine : ~HasHttp(trimmedLine[i])
           parts == SplitOnDash(trimmedLine, 1, <<>>)
           urlTokens == SelectSeq(trimmedLine, MatchesUrl)
           url == IF isFolder THEN None
                  ELSE IF urlTokens # <<>> THEN Some(<<urlTokens[1]>>)
                  ELSE IF Len(parts) > 1 THEN Some(parts[2])
                  ELSE None
           title == IF isFolder THEN trimmedLine ELSE parts[1]
           popped == PopTo(stack, level)
           node == MkParsed(IF isFolder THEN "folder" ELSE "bookmark", title, url,
                            popped[Len(popped)].node, line)
           pushed == IF isFolder
                     THEN Append(popped, [node |-> Len(nodes) + 1, level |-> level])
                     ELSE popped
       IN IF IsComment(trimmedLine) THEN ParseLines(Tail(lines), stack, nodes)
          ELSE ParseLines(Tail(lines), pushed, Append(nodes, node))

\* parseStructureText(text)
parseStructureText(text) ==
  ParseLines(SelectSeq(text, LAMBDA line : line.tokens # <<>>),
             <<[node |-> 0, level |-> -1]>>, <<>>)

\* ----------------------------------------------------------- executeRestructure
MsgCompleted == "Restructuring completed successfully"
MsgRolledBack == "Restructuring failed and was rolled back automatically"
MsgRollbackAlsoFailed == "Restructuring failed and automatic rollback also failed"
MsgRollbackFailed == "Restructuring failed and rollback failed"

MkResult(kind, success, snapshotId, message, error, rollbackError) ==
  [kind |-> kind, success |-> success, snapshotId |-> snapshotId, message |-> message,
   error |-> error, rollbackError |-> rollbackError]
NoResult == MkResult("none", FALSE, 0, "", "", "")

\* error.message || 'Unknown error'
ErrorText(err) == IF err.message # "" THEN err.message ELSE "Unknown error"

\* a faulty variant of RollbackResult: the messages for "returned false" and
\* "threw" are exchanged
RollbackResultSwapped(snapshotId, err, outcome) ==
  CASE outcome = "true" ->
         MkResult("returned", FALSE, snapshotId, MsgRolledBack, ErrorText(err), "")
    [] outcome = "false" ->
         MkResult("returned", FALSE, snapshotId, MsgRollbackFailed, ErrorText(err), "")
    [] OTHER ->
         MkResult("returned", FALSE, snapshotId, MsgRollbackAlsoFailed, ErrorText(err),
                  "storage error")

\* the result built in the catch block, by what restoreSnapshot did
RollbackResult(snapshotId, err, outcome) ==
  CASE outcome = "true" ->
         MkResult("returned", FALSE, snapshotId, MsgRolledBack, ErrorText(err), "")
    [] outcome = "false" ->
         MkResult("returned", FALSE, snapshotId, MsgRollbackAlsoFailed, ErrorText(err), "")
    [] OTHER ->
         MkResult("returned", FALSE, snapshotId, MsgRollbackFailed, ErrorText(err),
                  "storage error")

\* the operation lists executeRestructure is called with
OrganizeTargets ==
  { <<Folder(Str("Docs"), <<Bookmark(Str("Spec"), "https://example.com/spec")>>)>>,
    <<Folder(Str("Docs"), <<Bookmark(Str("Notes"), NoUrl), Bookmark(Str("Spec"), NoUrl)>>)>> }

PlannedLists(t) == {simulateRestructure(getTree(t), target) : target \in OrganizeTargets}

HandLists ==
  { <<CreateOp(Str("Docs"), "1", "temp_1"), MoveOp("10", "temp_1", 0)>>,
    <<CreateOp(Str("Docs"), "1", "temp_1"), MoveOp("10", "temp_1", 0), MoveOp("11", "temp_1", 1)>>,
    <<MoveOp("11", "1", 0), MoveOp("10", "2", 0)>>,
    <<MoveOp("11", "2", 0), RemoveOp("10")>>,
    <<>> }

\* executeRestructure(operations) is called
OrchBegin ==
  /\ pc = "idle"
  /\ \E list \in PlannedLists(live) \cup HandLists :
       /\ Len(list) <= MaxOps
       /\ ops' = list
       /\ given' = list
  /\ pc' = "snapshot"
  /\ treeBefore' = live
  /\ UNCHANGED <<live, freshCount, opIdx, idMap, folderIds, execState, execErr, calls,
                 storeVars, revision, runSnapshot, restoreArgs, result, restoreVars, planVars, tmVars>>

\* a faulty variant of OrchSnapshot: createSnapshot sits inside the try block next
\* to an execute that does not wait for it, so execute runs whether or not the
\* snapshot was taken
OrchSnapshotEager ==
  /\ pc = "snapshot"
  /\ UNCHANGED <<snapArray, revision, treeBefore, restoreArgs, restoreVars, given, planVars, tmVars>>
  /\ \E ts \in ClockReadings(now) : \E idClock \in ClockReadings(ts) :
     \E failed \in {"none", "getTree", "set"} :
       /\ now' = idClock
       /\ pc' = "execute"
       /\ result' = result
       /\ ExecuteCall(ops)
       /\ IF failed = "none"
          THEN LET snap == NewSnapshot(live, "Before restructuring", ts, idClock)
               IN /\ store' = StoreSnapshot(store, snap)
                  /\ runSnapshot' = snap
          ELSE UNCHANGED <<store, runSnapshot>>

\* createSnapshot("Before restructuring") settles; on success execute(operations)
\* is called at once
OrchSnapshot ==
  /\ pc = "snapshot"
  /\ UNCHANGED <<snapArray, revision, treeBefore, restoreArgs, restoreVars, given, planVars, tmVars>>
  /\ \E ts \in ClockReadings(now) : \E idClock \in ClockReadings(ts) :
     \E failed \in {"none", "getTree", "set"} :
       /\ now' = idClock
       /\ IF failed = "none"
          THEN LET snap == NewSnapshot(live, "Before restructuring", ts, idClock)
               IN /\ store' = StoreSnapshot(store, snap)
                  /\ runSnapshot' = snap
                  /\ pc' = "execute"
                  /\ result' = result
                  /\ ExecuteCall(ops)
          ELSE /\ result' = MkResult("threw", FALSE, 0, "", failed, "")
               /\ pc' = "done"
               /\ UNCHANGED <<execVars, store, runSnapshot>>

\* execute resolved: the success result
OrchSucceed ==
  /\ pc = "execute"
  /\ execState = "resolved"
  /\ result' = MkResult("returned", TRUE, runSnapshot.id, MsgCompleted, "", "")
  /\ pc' = "done"
  /\ UNCHANGED <<execVars, storeVars, revision, runSnapshot, treeBefore, restoreArgs, restoreVars,
                 given, planVars, tmVars>>

\* execute rejected: restoreSnapshot(snapshot.id) is called
OrchRollback ==
  /\ pc = "execute"
  /\ execState = "rejected"
  /\ pc' = "restore"
  /\ restoreArgs' = Append(restoreArgs, runSnapshot.id)
  /\ RestoreCall(runSnapshot.id)
  /\ UNCHANGED <<execVars, storeVars, revision, runSnapshot, treeBefore, result, given, planVars,
                 tmReturn>>

\* restoreSnapshot settled: one of the three failure results
OrchFinish ==
  /\ pc = "restore"
  /\ rPhase = "done"
  /\ result' = RollbackResult(runSnapshot.id, execErr, rOutcome)
  /\ pc' = "done"
  /\ UNCHANGED <<execVars, storeVars, revision, runSnapshot, treeBefore, restoreArgs, restoreVars,
                 given, planVars, tmVars>>

\* ------------------------------------------------------------ specifications
InitCommon ==
  /\ freshCount = 0
  /\ opIdx = 1
  /\ idMap = EmptyMap
  /\ folderIds = {"0", "1", "2", "3"}
  /\ execState = "idle"
  /\ execErr = NoError
  /\ calls = <<>>
  /\ now = 1
  /\ store = [x \in {} |-> NoSnapshot]
  /\ snapArray = <<>>
  /\ pc = "idle"
  /\ runSnapshot = NoSnapshot
  /\ restoreArgs = <<>>
  /\ result = NoResult
  /\ rPhase = "idle"
  /\ rTarget = NoSnapshot
  /\ rWork = <<>>
  /\ rExisting = <<>>
  /\ rRemIdx = 1
  /\ rOutcome = "none"
  /\ rLog = <<>>
  /\ tmCall = NoTmCall
  /\ tmReturn = NoTmReturn

ParseIdle ==
  /\ parseText = <<>>
  /\ parsed = <<>>
  /\ parseDone = FALSE

PlanIdle ==
  /\ planSrc = <<>>
  /\ planTarget = <<>>
  /\ planOps = <<>>
  /\ planDone = FALSE
  /\ planAgain = <<>>
  /\ planCalls = 0
  /\ ParseIdle

\* the whole flow: executeRestructure against the browser
Init ==
  /\ InitCommon
  /\ live \in {TreeEmpty, TreeFlat, TreeNested}
  /\ treeBefore = live
  /\ revision \in {1, 2}
  /\ ops = <<>>
  /\ given = <<>>
  /\ PlanIdle

Next ==
  \/ OrchBegin
  \/ OrchSnapshot
  \/ ExecSkipInvalid
  \/ ExecCreate
  \/ ExecMove
  \/ ExecRemove
  \/ ExecReturn
  \/ OrchSucceed
  \/ OrchRollback
  \/ RestoreLookup
  \/ RestoreBackup
  \/ RestoreNode
  \/ RestoreWalkDone
  \/ RestoreRemove
  \/ RestoreFinish
  \/ OrchFinish

Spec == Init /\ [][Next]_vars

\* the executor alone: execute(operations) for every short list over OpPool
OpPool ==
  { CreateOp(Str("Docs"), "1", "temp_1"),
    CreateOp(Str("Sub"), "temp_1", "temp_2"),
    PlannedCreateOp(Str("Docs"), "1", "temp_1"),
    MoveOp("10", "temp_1", 0),
    MoveOp("temp_2", "2", 0),
    RemoveOp("11"),
    InvalidOp }

OpLists == UNION {[1..n -> OpPool] : n \in 0..MaxOps}

ExecuteBegin ==
  /\ execState = "idle"
  /\ ExecuteCall(ops)
  /\ ExecOnly

InitExec ==
  /\ InitCommon
  /\ live = TreeFlat
  /\ treeBefore = live
  /\ revision = 2
  /\ ops \in OpLists
  /\ given = ops
  /\ PlanIdle

\* a later execute() on the same executor instance: the lists name the folders
\* of the first call by their temporary ids, and one create uses "temp_1" again
LaterPool ==
  { MoveOp("11", "temp_1", 0),
    RemoveOp("temp_2"),
    CreateOp(Str("Sub"), "temp_1", "temp_3"),
    CreateOp(Str("Docs"), "2", "temp_1") }

LaterLists == UNION {[1..n -> LaterPool] : n \in 1..2}

ExecuteAgain ==
  /\ execState \in {"resolved", "rejected"}
  /\ given \notin LaterLists
  /\ \E list \in LaterLists :
       /\ given' = list
       /\ ExecuteCall(list)
  /\ treeBefore' = live
  /\ UNCHANGED <<storeVars, revision, pc, runSnapshot, restoreArgs, result, restoreVars,
                 planVars, tmVars>>

NextExec ==
  \/ ExecuteBegin
  \/ ExecuteAgain
  \/ ExecSkipInvalid
  \/ ExecCreate
  \/ ExecMove
  \/ ExecRemove
  \/ ExecReturn

SpecExec == InitExec /\ [][NextExec]_vars

\* the planner alone: the popup reads the tree, then simulateRestructure plans
\* the target the user typed
ScenarioATarget == <<Folder(Str("Docs"), <<Bookmark(Str("Spec"), "https://example.com/spec")>>)>>
ScenarioBTarget == <<Folder(Str("Docs"), <<Bookmark(Str("Spec"), "https://x.com")>>)>>

PlanTargets ==
  { ScenarioATarget,
    ScenarioBTarget,
    <<Folder(Str("Work"), <<Folder(Str("Docs"), <<Bookmark(Str("Spec"), NoUrl)>>)>>)>>,
    <<Bookmark(Str("Notes"), NoUrl), Folder(Str("Docs"), <<>>)>>,
    <<Folder(Str("Work"), <<Folder(Str("Docs"), <<>>), Folder(Str("Archive"), <<>>)>>),
      Folder(Str("Work"), <<>>)>>,
    <<Folder(Str("Spec"), <<Bookmark(Str("Notes"), NoUrl), Folder(Str("Docs"), <<>>)>>)>>,
    <<Folder(Str("Bookmarks Bar"), <<Bookmark(Str("Spec"), NoUrl)>>)>>,
    <<Folder(Str("Work"), <<Folder(Str("Work"), <<>>)>>)>> }

\* live trees with folder "Docs" (id "5") and bookmark "Spec" (id "10") in every
\* place, alone or beside one more node; one of these is a bookmark whose title,
\* "Bookmarks Bar/Docs", holds a "/"; or beside two bookmarks titled "Notes", in
\* one folder or in two
PlanExtras ==
  {<<>>} \cup {<<Seed("11", p, <<"Notes">>, "https://example.com/notes")>> : p \in {"1", "2", "5"}}
         \cup {<<Seed("6", p, <<"Work">>, NoUrl)>> : p \in {"1", "2"}}
         \cup {<<Seed("12", p, <<"Bookmarks Bar", "Docs">>, "https://example.com/bar-docs")>> :
                  p \in {"1", "2"}}
         \cup {<<Seed("11", p, <<"Notes">>, "https://example.com/notes"),
                  Seed("13", q, <<"Notes">>, "https://example.com/notes-too")>> :
                  p \in {"1", "5"}, q \in {"1", "5"}}

PlanTrees ==
  { Plant(RootOnly, <<Seed("5", docsParent, <<"Docs">>, NoUrl),
                      Seed("10", specParent, <<"Spec">>, "https://example.com/spec")>> \o extra) :
      docsParent \in {"1", "2"}, specParent \in {"1", "2", "5"}, extra \in PlanExtras }
  \cup {TreeEmpty, TreeFlat, TreeNested}

\* bookmarkRepository.getTree()
PlanRead ==
  /\ planSrc = <<>>
  /\ planSrc' = getTree(live)
  /\ UNCHANGED <<execVars, storeVars, revision, orchVars, restoreVars, given,
                 planTarget, planOps, planDone, planAgain, planCalls, parseVars, tmVars>>

\* Math.random(): a call draws its temporary ids anywhere in the pool, so the n-th
\* id of one call is TempIds[n + base] for a base that differs from call to call
TempBases == {0, 3}

ShiftTempId(id, base) ==
  IF id \in SeqToSet(TempIds) THEN TempIds[IndexIn(TempIds, id) + base] ELSE id

\* a faulty variant of WithTempIdsFrom: the id a move refers to is drawn anew and
\* is not the id its create carries
WithTempIdsDrawnTwice(list, base) ==
  [i \in 1..Len(list) |->
     [list[i] EXCEPT
        !.id = ShiftTempId(@, base),
        !.destination = IF @ = None THEN @
                        ELSE Some([@[1] EXCEPT !.parentId = ShiftTempId(@, base)])]]

WithTempIdsFrom(list, base) ==
  [i \in 1..Len(list) |->
     LET op == list[i]
     IN [op EXCEPT
           !.id = ShiftTempId(@, base),
           !.tempId = ShiftTempId(@, base),
           !.folder = IF @ = None THEN @
                      ELSE Some([@[1] EXCEPT !.parentId = ShiftTempId(@, base)]),
           !.data = IF @ = None THEN @
                    ELSE Some([@[1] EXCEPT !.parentId = ShiftTempId(@, base)]),
           !.destination = IF @ = None THEN @
                           ELSE Some([@[1] EXCEPT !.parentId = ShiftTempId(@, base)])]]

\* restructuringService.simulateRestructure(bookmarkTreeNodes, targetStructure),
\* the first call and a second one with the same arguments
PlanSimulate ==
  /\ planSrc # <<>>
  /\ planCalls < 2
  /\ planCalls' = planCalls + 1
  /\ planDone' = TRUE
  /\ \E base \in TempBases :
       LET planned == WithTempIdsFrom(simulateRestructure(planSrc, planTarget), base)
       IN IF planCalls = 0
          THEN planOps' = planned /\ UNCHANGED planAgain
          ELSE planAgain' = planned /\ UNCHANGED planOps
  /\ UNCHANGED <<execVars, storeVars, revision, orchVars, restoreVars, given,
                 planSrc, planTarget, parseVars, tmVars>>

InitPlan ==
  /\ InitCommon
  /\ live \in PlanTrees
  /\ treeBefore = live
  /\ revision = 2
  /\ ops = <<>>
  /\ given = <<>>
  /\ planSrc = <<>>
  /\ planTarget \in PlanTargets
  /\ planOps = <<>>
  /\ planDone = FALSE
  /\ planAgain = <<>>
  /\ planCalls = 0
  /\ ParseIdle

NextPlan ==
  \/ PlanRead
  \/ PlanSimulate

SpecPlan == InitPlan /\ [][NextPlan]_vars

\* parseStructureText alone, on every text of a few lines
MaxLines == 3

Indents ==
  {<<>>, <<"tab">>, <<"sp", "sp">>, <<"sp", "sp", "sp">>, <<"sp", "sp", "sp", "sp">>}

LineContents ==
  { <<>>,
    <<"Docs/">>,
    <<"Notes">>,
    <<"Spec", "https://a.com/p">>,
    <<"Spec", "https://a.com/p", "q">>,
    <<"Spec", "-", "https://a.com/p">>,
    <<"Spec", "-", "http://">>,
    <<"#note">> }

TextLines == {MkLine(indent, tokens) : indent \in Indents, tokens \in LineContents}

Texts == UNION {[1..n -> TextLines] : n \in 1..MaxLines}

ParseCall ==
  /\ ~parseDone
  /\ parsed' = parseStructureText(parseText)
  /\ parseDone' = TRUE
  /\ UNCHANGED <<execVars, storeVars, revision, orchVars, restoreVars, given, planSrc,
                 planTarget, planOps, planDone, planAgain, planCalls, parseText, tmVars>>

InitParse ==
  /\ InitCommon
  /\ live = TreeEmpty
  /\ treeBefore = live
  /\ revision = 2
  /\ ops = <<>>
  /\ given = <<>>
  /\ planSrc = <<>>
  /\ planTarget = <<>>
  /\ planOps = <<>>
  /\ planDone = FALSE
  /\ planAgain = <<>>
  /\ planCalls = 0
  /\ parseText \in Texts
  /\ parsed = <<>>
  /\ parseDone = FALSE

NextParse == ParseCall

SpecParse == InitParse /\ [][NextParse]_vars

\* the transaction manager alone: createSnapshot, getSnapshots, cleanupSnapshots
\* and restoreSnapshot called one after the other, in any order, with a bookmark
\* or a folder removed from the tree in between
MaxCalls == 3

\* constructor(repository, chromeAPI, maxSnapshots)
maxSnapshots == 2

TMIdle == rPhase \in {"idle", "done"} /\ tmCall.seq < MaxCalls

TMOnly ==
  UNCHANGED <<ops, opIdx, idMap, folderIds, execState, execErr, calls, revision, orchVars,
              given, planVars>>

\* createSnapshot(name): the tree is read, the snapshot is built and stored, and
\* the promise settles
CreateSnapshotSettles(name) ==
  \E ts \in ClockReadings(now) : \E idClock \in ClockReadings(ts) :
  \E failed \in {"none", "set"} :
    /\ now' = idClock
    /\ IF failed = "none"
       THEN LET snap == NewSnapshot(live, name, ts, idClock)
            IN /\ store' = StoreSnapshot(store, snap)
               /\ tmReturn' = MkTmReturn("returned", <<snap>>)
       ELSE /\ store' = store
            /\ tmReturn' = MkTmReturn("threw", <<>>)

\* createSnapshot(name), called the way executeRestructure calls it
TMCreateSnapshot ==
  /\ TMIdle
  /\ TMOnly
  /\ UNCHANGED <<live, freshCount, snapArray, restoreVars>>
  /\ tmCall' = MkTmCall("createSnapshot", 0, store, snapArray)
  /\ \E name \in {"Before restructuring"} : CreateSnapshotSettles(name)

\* getSnapshots(), first revision: every bookmark_snapshot_* item, newest first
SnapshotsFromItems(st) ==
  LET keys == KeysAscending(DOMAIN st)
  IN NewestFirst([i \in 1..Len(keys) |-> st[keys[i]]])

\* getSnapshots()
TMGetSnapshots ==
  /\ TMIdle
  /\ TMOnly
  /\ UNCHANGED <<live, freshCount, now, store, restoreVars>>
  /\ tmCall' = MkTmCall("getSnapshots", 0, store, snapArray)
  /\ IF revision = 2
     THEN /\ snapArray' = getSnapshots(store, snapArray)
          /\ tmReturn' = MkTmReturn("returned", getSnapshots(store, snapArray))
     ELSE /\ UNCHANGED snapArray
          /\ \E lastError \in BOOLEAN :
               tmReturn' = (IF lastError THEN MkTmReturn("threw", <<>>)
                            ELSE MkTmReturn("returned", SnapshotsFromItems(store)))

\* storage.local.remove of the key of each snapshot of a list
RECURSIVE RemoveKeys(_, _)
RemoveKeys(st, list) ==
  IF list = <<>> THEN st
  ELSE RemoveKeys([k \in DOMAIN st \ {Head(list).id} |-> st[k]], Tail(list))

\* cleanupSnapshots(maxToKeep)
TMCleanupSnapshots ==
  /\ TMIdle
  /\ TMOnly
  /\ UNCHANGED <<live, freshCount, now, restoreVars>>
  /\ \E maxToKeep \in {1, maxSnapshots} : \E readFails \in BOOLEAN :
       LET snapshots == IF revision = 2 THEN getSnapshots(store, snapArray)
                        ELSE SnapshotsFromItems(store)
           toRemove == SubSeq(snapshots, maxToKeep + 1, Len(snapshots))
           kept == SubSeq(snapshots, 1, maxToKeep)
       IN /\ tmCall' = MkTmCall("cleanupSnapshots", maxToKeep, store, snapArray)
          /\ IF revision = 1 /\ readFails
             THEN /\ UNCHANGED <<store, snapArray>>
                  /\ tmReturn' = MkTmReturn("threw", <<>>)
             ELSE IF Len(snapshots) <= maxToKeep
             THEN /\ store' = store
                  /\ snapArray' = (IF revision = 2 THEN snapshots ELSE snapArray)
                  /\ tmReturn' = MkTmReturn("returned", <<>>)
             ELSE \E failAt \in 0..Len(toRemove) : \E setFails \in BOOLEAN :
                    /\ store' = RemoveKeys(store, IF failAt = 0 THEN toRemove
                                                  ELSE SubSeq(toRemove, 1, failAt - 1))
                    /\ snapArray' = (IF revision = 2
                                     THEN (IF failAt = 0 /\ ~setFails THEN kept ELSE snapshots)
                                     ELSE snapArray)
                    /\ tmReturn' = (IF failAt # 0 \/ (revision = 2 /\ setFails)
                                    THEN MkTmReturn("threw", <<>>)
                                    ELSE MkTmReturn("returned", <<>>))

\* restoreSnapshot(snapshotId), for an id that is stored or not; one restore
\* in a behaviour
TMRestoreSnapshot ==
  /\ TMIdle
  /\ rPhase = "idle"
  /\ TMOnly
  /\ UNCHANGED <<live, freshCount, storeVars, tmReturn>>
  /\ \E id \in 1..MaxClock : RestoreCall(id)

\* a bookmark or a folder is removed between two calls of the manager (through
\* the repository, or by the user in the browser), once and before the restore
\* a faulty variant of BrowserRemove: the stored snapshots hold the tree object
\* that getTree returned, so the removal shows in every snapshot of that tree
BrowserRemoveSeenInSnapshots ==
  /\ TMIdle
  /\ rPhase = "idle"
  /\ live = treeBefore
  /\ TMOnly
  /\ UNCHANGED <<freshCount, now, snapArray, restoreVars, tmVars>>
  /\ \E id \in DOMAIN live \ ReservedIds :
       /\ live' = ChromeRemoveTree(live, id)
       /\ store' = [k \in DOMAIN store |->
                      IF store[k].tree = getTree(live)
                      THEN [store[k] EXCEPT !.tree = getTree(live')]
                      ELSE store[k]]

BrowserRemove ==
  /\ TMIdle
  /\ rPhase = "idle"
  /\ live = treeBefore
  /\ TMOnly
  /\ UNCHANGED <<freshCount, storeVars, restoreVars, tmVars>>
  /\ \E id \in DOMAIN live \ ReservedIds : live' = ChromeRemoveTree(live, id)

InitTM ==
  /\ InitCommon
  /\ live = TreeNested
  /\ treeBefore = live
  /\ revision \in {1, 2}
  /\ ops = <<>>
  /\ given = <<>>
  /\ PlanIdle

NextTM ==
  \/ TMCreateSnapshot
  \/ TMGetSnapshots
  \/ TMCleanupSnapshots
  \/ TMRestoreSnapshot
  \/ BrowserRemove
  \/ RestoreLookup
  \/ RestoreBackup
  \/ RestoreNode
  \/ RestoreWalkDone
  \/ RestoreRemove
  \/ RestoreFinish

SpecTM == InitTM /\ [][NextTM]_vars

\* createSnapshot alone: snapshots taken with and without a name, and the user
\* removing a bookmark or a folder in the browser between them
SnapNames == {"", "Test Snapshot"}

SnapCreate ==
  /\ TMIdle
  /\ TMOnly
  /\ UNCHANGED <<live, freshCount, snapArray, restoreVars>>
  /\ \E name \in SnapNames :
       /\ tmCall' = [MkTmCall("createSnapshot", 0, store, snapArray) EXCEPT !.n = name]
       /\ CreateSnapshotSettles(name)

InitSnap ==
  /\ InitCommon
  /\ live \in {TreeFlat, TreeNested}
  /\ treeBefore = live
  /\ revision \in {1, 2}
  /\ ops = <<>>
  /\ given = <<>>
  /\ PlanIdle

NextSnap ==
  \/ SnapCreate
  \/ BrowserRemove

SpecSnap == InitSnap /\ [][NextSnap]_vars

\* ================================================================== claims
\* ------------------------------------------------------- helpers of the claims
AllValid(list) == \A i \in DOMAIN list : validateOperation(list[i])

References(op, tempId) ==
  /\ op.type = "move"
  /\ op.id = tempId \/ (op.destination # None /\ op.destination[1].parentId = tempId)

IsCreate(op) == op.type = "create"
CreateOrder(list) ==
  LET cs == SelectSeq(list, IsCreate)
  IN [i \in 1..Len(cs) |-> <<cs[i].tempId, cs[i].data[1].title>>]

TempIdSet == SeqToSet(TempIds)

\* the tree that results from the successful calls of a call log
RECURSIVE Replay(_, _)
Replay(t, cs) ==
  IF cs = <<>> THEN t
  ELSE LET c == Head(cs)
           next == CASE ~c.ok -> t
                     [] c.fn \in {"create", "createFolder"} ->
                          ChromeCreate(t, c.id, c.parentId, c.title,
                                       IF c.fn = "create" THEN "u" ELSE NoUrl, c.index)
                     [] c.fn = "move" -> ChromeMove(t, c.id, c.parentId, c.index)
                     [] OTHER -> ChromeRemoveTree(t, c.id)
       IN Replay(next, Tail(cs))

\* who sits where in a tree as getTree returns it: <<id, parentId, index>> of every node
RECURSIVE TreeShape(_)
TreeShape(nodes) ==
  IF nodes = <<>> THEN {}
  ELSE {<<Head(nodes).id, Head(nodes).parentId, Head(nodes).index>>}
       \cup TreeShape(Head(nodes).children) \cup TreeShape(Tail(nodes))

TreeIds(nodes) == {s[1] : s \in TreeShape(nodes)}

OnlyCreatesAndMoves(list) == \A i \in DOMAIN list : list[i].type \in {"create", "move"}

\* the title a create operation carries, under either of its two field names
PlannedTitle(op) == IF op.folder # None THEN op.folder[1].title ELSE op.data[1].title

\* ------------------------------------------------------------------------ C1
\* every call the restore made succeeded, and no node was created anew
RestoreWentClean == \A i \in DOMAIN rLog : rLog[i].ok /\ rLog[i].fn # "create"

\* C1 (as claimed): when execute failed after a prefix of create/move operations
\* and the result says the run was rolled back automatically, the live tree has
\* the ids, the parents and the sibling order of the tree in the pre-run snapshot.
\* Stated here for the runs in which no call of the restore itself failed.
C1_RolledBackTreeEqualsSnapshot ==
  (/\ pc = "done"
   /\ execState = "rejected"
   /\ result.message = MsgRolledBack
   /\ OnlyCreatesAndMoves(given)
   /\ RestoreWentClean)
  => TreeShape(getTree(live)) = TreeShape(runSnapshot.tree)

\* ------------------------------------------------------------------------ C2
\* C2: restoreSnapshot is called at most once, only after execute rejected and
\* with the pre-run snapshot's id; the failure result carries that id and the
\* execute error, and its message tells apart restoreSnapshot returning true,
\* returning false and throwing; after a successful execute it is never called.
C2_RollbackReporting ==
  /\ Len(restoreArgs) <= 1
  /\ \A i \in DOMAIN restoreArgs :
       restoreArgs[i] = runSnapshot.id /\ execState = "rejected"
  /\ execState = "resolved" => restoreArgs = <<>> /\ rPhase = "idle"
  /\ (pc = "done" /\ execState = "resolved") =>
       result = MkResult("returned", TRUE, runSnapshot.id, MsgCompleted, "", "")
  /\ (pc = "done" /\ execState = "rejected") =>
       /\ Len(restoreArgs) = 1
       /\ result.kind = "returned"
       /\ ~result.success
       /\ result.snapshotId = runSnapshot.id
       /\ result.error = ErrorText(execErr)
       /\ result.message \in {MsgRolledBack, MsgRollbackAlsoFailed, MsgRollbackFailed}
       /\ result.message = MsgRolledBack <=> rOutcome = "true"
       /\ result.message = MsgRollbackAlsoFailed <=> rOutcome = "false"
       /\ result.message = MsgRollbackFailed <=> rOutcome = "threw"
       /\ result.rollbackError # "" <=> rOutcome = "threw"

\* C2's case: execute rejected after a first call was applied, restoreSnapshot
\* threw, and the result was built
C2_Witness ==
  /\ pc = "done"
  /\ execState = "rejected"
  /\ Len(calls) >= 2
  /\ rOutcome = "threw"
  /\ result.message = MsgRollbackFailed

\* ------------------------------------------------------------------------ C3
\* C3 (as claimed): executeRestructure always settles by returning a result
\* object, whichever of createSnapshot, execute or restoreSnapshot failed.
C3_AlwaysReturnsResult == pc = "done" => result.kind = "returned"

\* ------------------------------------------------------------------------ C4
\* C4: until createSnapshot("Before restructuring") has succeeded, execute has not
\* been called and the live tree is untouched; when it fails, execute is never
\* called; whenever execute has been called, the snapshot of the untouched tree
\* is in storage.
C4_SnapshotBeforeExecute ==
  /\ pc \in {"idle", "snapshot"} =>
       execState = "idle" /\ calls = <<>> /\ live = treeBefore
  /\ result.kind = "threw" =>
       execState = "idle" /\ calls = <<>> /\ live = treeBefore
  /\ execState # "idle" =>
       /\ runSnapshot.name = "Before restructuring"
       /\ runSnapshot.tree = getTree(treeBefore)
       /\ runSnapshot.id \in DOMAIN store

\* C4's case: createSnapshot failed for a non-empty list of valid operations
C4_Witness ==
  /\ pc = "done"
  /\ result.kind = "threw"
  /\ given # <<>>
  /\ AllValid(given)

\* ------------------------------------------------------------------------ C5
\* C5 (as claimed): for every list of valid create, move and remove operations,
\* every move is issued to the repository only after the create of each tempId it
\* references has been issued, and the creates keep their original relative order.
C5_CreateBeforeMove ==
  AllValid(given) =>
    /\ \A i \in DOMAIN calls :
         calls[i].fn = "move" =>
           \A k \in DOMAIN ops :
             (IsCreate(ops[k]) /\ ops[k].tempId # NoId
              /\ References(ops[calls[i].op], ops[k].tempId))
             => \E j \in 1..(i - 1) : calls[j].op = k
    /\ execState # "idle" => CreateOrder(ops) = CreateOrder(given)

\* ------------------------------------------------------------------------ C6
\* C6: a rejected repository call is the last call execute makes, execute rejects
\* with that call's error, no operation is tried twice, and the tree is exactly
\* what the calls that succeeded before it made of it.
C6_AbortOnRejection ==
  /\ \A i \in DOMAIN calls :
       ~calls[i].ok => /\ i = Len(calls)
                       /\ execState = "rejected"
                       /\ execErr = MkError(calls[i].fn, i)
  /\ execState = "rejected" => calls # <<>> /\ ~calls[Len(calls)].ok
  /\ execState = "resolved" => execErr = NoError
  /\ \A i, j \in DOMAIN calls : i < j => calls[i].op < calls[j].op
  /\ execState # "idle" => live = Replay(treeBefore, calls)

\* C6's case: a call rejected after an earlier one was applied, with operations left
C6_Witness ==
  /\ execState = "rejected"
  /\ Len(calls) >= 2
  /\ calls[1].ok
  /\ opIdx < Len(ops)
  /\ live # treeBefore

\* ------------------------------------------------------------------------ C7
\* C7 (as claimed): the plan of target Docs/[Spec] against the empty tree is one
\* create titled "Docs" and one move, of the bookmark into the new folder; and
\* once that plan has run, a move was issued whose destination parentId is the id
\* the repository returned for "Docs".
C7_ScenarioA ==
  (/\ pc # "idle"
   /\ treeBefore = TreeEmpty
   /\ given = simulateRestructure(getTree(TreeEmpty), ScenarioATarget))
  => LET creates == {i \in DOMAIN given : given[i].type = "create"}
         moves == {i \in DOMAIN given : given[i].type = "move"}
     IN /\ Cardinality(creates) = 1
        /\ Cardinality(moves) = 1
        /\ \A k \in creates : PlannedTitle(given[k]) = Str("Docs")
        /\ \A i \in moves : \A k \in creates :
             /\ given[i].id # given[k].tempId
             /\ given[i].destination[1].parentId = given[k].tempId
        /\ (pc = "done" /\ result.success) =>
             \E c \in DOMAIN calls : \E mv \in DOMAIN calls :
               /\ calls[c].fn = "createFolder"
               /\ calls[c].ok
               /\ calls[c].title = Str("Docs")
               /\ calls[mv].fn = "move"
               /\ calls[mv].parentId = calls[c].id

\* ------------------------------------------------------------------------ C8
\* a live tree with exactly one node titled "Docs", the folder with id "5", and
\* exactly one node titled "Spec", a bookmark
HasDocsAndSpec(t) ==
  /\ {id \in DOMAIN t : t[id].title = Str("Docs")} = {"5"}
  /\ IsFolder(t, "5")
  /\ Cardinality({id \in DOMAIN t : t[id].title = Str("Spec")}) = 1
  /\ \A id \in DOMAIN t : t[id].title = Str("Spec") => t[id].url # NoUrl

SpecId(t) == CHOOSE id \in DOMAIN t : t[id].title = Str("Spec")

ScenarioBPlanned == planDone /\ planTarget = ScenarioBTarget /\ HasDocsAndSpec(live)

\* C8 (as claimed): with folder "Docs" (id "5") and bookmark "Spec" in the live
\* tree, the plan of target Docs/[Spec] is no create and the single move of
\* "Spec" to parent "5", index 0.
C8_ScenarioB_OneMove ==
  ScenarioBPlanned => planOps = <<MoveOp(SpecId(live), "5", 0)>>

\* C8 (amended): with folder "Docs" (id "5") and bookmark "Spec" in the live
\* tree, the plan of target Docs/[Spec] is no create and two moves: the folder
\* "5" to the Bookmarks Bar ("1") at index 0, then "Spec" to parent "5", index 0.
C8_ScenarioB_TwoMoves ==
  ScenarioBPlanned => planOps = <<MoveOp("5", "1", 0), MoveOp(SpecId(live), "5", 0)>>

\* C8's case: planned with "Docs" under Other Bookmarks and "Spec" already in it
C8_Witness ==
  /\ ScenarioBPlanned
  /\ live["5"].parentId = "2"
  /\ live[SpecId(live)].parentId = "5"
  /\ Len(planOps) = 2

\* ------------------------------------------------------------------------ C9
\* C9 (as claimed): repository.move is never called with a temporary id that no
\* executed create has resolved; execute fails before the call instead.
C9_NoMoveWithTempId ==
  \A i \in DOMAIN calls :
    calls[i].fn = "move" => calls[i].id \notin TempIdSet /\ calls[i].parentId \notin TempIdSet

\* ----------------------------------------------------------------------- C10
\* C10 (as claimed): once restoreSnapshot has returned true, every live node
\* outside the reserved ids has its id in the restored snapshot's tree, and every
\* node the walk left flagged "not in snapshot" is gone.
C10_NoStrayNodesAfterRestore ==
  (rPhase = "done" /\ rOutcome = "true") =>
    /\ \A id \in DOMAIN live : id \in ReservedIds \/ id \in TreeIds(rTarget.tree)
    /\ \A i \in DOMAIN rExisting :
         (rExisting[i].notInSnapshot /\ rExisting[i].id \notin ReservedIds)
         => rExisting[i].id \notin DOMAIN live

\* ----------------------------------------------------------------------- C11
\* C11: restoreSnapshot never issues an update, a move or a remove whose target
\* id is one of the reserved ids "0", "1", "2", "3", whatever the snapshot and the
\* live tree, although "1", "2", "3" stay flagged "not in snapshot" after the walk.
C11_ReservedIdsUntouched ==
  \A i \in DOMAIN rLog :
    rLog[i].fn \in {"update", "move", "remove"} => rLog[i].id \notin ReservedIds

\* C11's case: a restore ran to its end, removed something, and the three root
\* folders were still flagged when the removal loop went over them
C11_Witness ==
  /\ rPhase = "done"
  /\ rOutcome = "true"
  /\ \A id \in RootFolderIds \cap DOMAIN live :
       \E i \in DOMAIN rExisting : rExisting[i].id = id /\ rExisting[i].notInSnapshot
  /\ RootFolderIds \cap DOMAIN live # {}
  /\ \E j \in DOMAIN rLog : rLog[j].fn = "remove" /\ rLog[j].ok
  /\ \E j \in DOMAIN rLog : rLog[j].fn = "update"

\* ----------------------------------------------------------------------- C12
\* a snapshot node has a live counterpart under lp, the live counterpart of its
\* snapshot parent: a live node with its title and url (a reserved node is its
\* own counterpart), under which every child of the node has a counterpart too
RECURSIVE HasCounterpart(_, _, _)
HasCounterpart(t, node, lp) ==
  IF node.id \in ReservedIds
  THEN /\ node.id \in DOMAIN t
       /\ \A i \in DOMAIN node.children : HasCounterpart(t, node.children[i], node.id)
  ELSE \E c \in DOMAIN t :
         /\ t[c].parentId = lp
         /\ t[c].title = node.title
         /\ t[c].url = node.url
         /\ \A i \in DOMAIN node.children : HasCounterpart(t, node.children[i], c)

\* no call of the restore failed, but for creates under a parent id that no
\* live node carries
NoFailureBesidesOrphanCreates ==
  \A i \in DOMAIN rLog :
    ~rLog[i].ok => rLog[i].fn = "create" /\ rLog[i].parentId \notin DOMAIN live

\* C12 (as claimed): once restoreSnapshot has returned true, every snapshot node
\* outside the reserved ids has a live counterpart with the snapshot's title and
\* url under the live counterpart of its snapshot parent, the nodes created anew
\* and every descendant of a folder created anew included.
C12_SnapshotRebuilt ==
  (rPhase = "done" /\ rOutcome = "true" /\ NoFailureBesidesOrphanCreates)
  => \A i \in DOMAIN rTarget.tree : HasCounterpart(live, rTarget.tree[i], Null)

\* ----------------------------------------------------------------------- C13
\* C13 (as claimed): when an update, move, create or remove call fails during a
\* restore, restoreSnapshot resolves to false (it neither throws nor returns
\* true), and executeRestructure then reports that the rollback failed as well.
C13_FailedCallMeansFalse ==
  (rPhase = "done" /\ \E i \in DOMAIN rLog : ~rLog[i].ok)
  => /\ rOutcome = "false"
     /\ pc = "done" => result.message = MsgRollbackAlsoFailed

\* ----------------------------------------------------------------------- C14
\* the id restoreSnapshot was called with was in storage neither under its own
\* key nor in the bookmarkSnapshots array when the call was made
RestoredIdUnknown ==
  /\ tmCall.fn = "restoreSnapshot"
  /\ rPhase = "done"
  /\ rTarget.id \notin DOMAIN tmCall.before
  /\ \A i \in DOMAIN tmCall.arrayBefore : tmCall.arrayBefore[i].id # rTarget.id

\* C14 (as claimed): restoreSnapshot called with an id that is not in storage
\* resolves to false without throwing, stores no safety snapshot and makes no
\* create, move, update or remove call.
C14_UnknownIdResolvesFalse ==
  RestoredIdUnknown => rOutcome = "false" /\ store = tmCall.before /\ rLog = <<>>

\* C14 (amended): restoreSnapshot called with an id that is not in storage stores
\* no safety snapshot and makes no create, move, update or remove call; it
\* resolves to false, but for the first revision when the storage read itself
\* reports an error, where it rejects with that error.
C14_UnknownIdChangesNothing ==
  RestoredIdUnknown
  => /\ rOutcome = "false" \/ (revision = 1 /\ rOutcome = "threw")
     /\ store = tmCall.before
     /\ rLog = <<>>

\* C14's case: other snapshots are stored, the id asked for is not, and the
\* restore has resolved to false
C14_Witness ==
  /\ RestoredIdUnknown
  /\ rOutcome = "false"
  /\ DOMAIN store # {}

\* ----------------------------------------------------------------------- C15
\* a snapshot the restore stores before it touches the tree
IsSafetySnapshot(snap) == snap.name \in {"Before restore", "Auto-backup before restore"}

\* C15 (as claimed): once a restore of an existing snapshot has made its first
\* mutation call, a new snapshot taken by that restore is stored, under an id
\* distinct from the id of the snapshot being restored, and the snapshot being
\* restored is still the one stored under its id.
C15_SafetySnapshotKept ==
  (tmCall.fn = "restoreSnapshot" /\ rLog # <<>> /\ rTarget.id \in DOMAIN tmCall.before)
  => /\ \E k \in DOMAIN store \ {rTarget.id} :
          /\ IsSafetySnapshot(store[k])
          /\ k \in DOMAIN tmCall.before => store[k] # tmCall.before[k]
     /\ rTarget.id \in DOMAIN store
     /\ store[rTarget.id] = tmCall.before[rTarget.id]

\* ----------------------------------------------------------------------- C16
\* C16 (as claimed): a snapshot that createSnapshot has stored under its id keeps
\* its tree, name and timestamp under that id; no later createSnapshot, the
\* safety snapshot of a restore included, overwrites it, whatever the clock
\* reads, and only pruning (cleanupSnapshots) takes it out of storage.
C16_StoredSnapshotNeverOverwritten ==
  tmCall.fn \in {"createSnapshot", "restoreSnapshot", "getSnapshots"}
  => \A k \in DOMAIN tmCall.before : k \in DOMAIN store /\ store[k] = tmCall.before[k]

\* ----------------------------------------------------------------------- C17
\* the snapshots stored under the bookmark_snapshot_* keys
PersistedSnapshots(st) == {st[k] : k \in DOMAIN st}

IsNewestFirst(list) ==
  \A i, j \in DOMAIN list : i < j => list[i].timestamp >= list[j].timestamp

\* C17 (as claimed): whatever createSnapshot, restoreSnapshot and
\* cleanupSnapshots calls came before, getSnapshots returns exactly the snapshots
\* stored under the bookmark_snapshot_* keys, each once, newest first.
C17_GetSnapshotsReturnsStored ==
  (tmCall.fn = "getSnapshots" /\ tmReturn.kind = "returned")
  => /\ SeqToSet(tmReturn.list) = PersistedSnapshots(store)
     /\ Len(tmReturn.list) = Cardinality(DOMAIN store)
     /\ IsNewestFirst(tmReturn.list)

\* ----------------------------------------------------------------------- C18
\* C18 (as claimed): cleanupSnapshots(N) called on a storage that holds M
\* snapshots removes nothing when M <= N and, when M > N, removes M - N of them,
\* none of which is newer than a snapshot it keeps.
C18_CleanupRemovesOldest ==
  (tmCall.fn = "cleanupSnapshots" /\ tmReturn.kind = "returned")
  => LET before == tmCall.before
         M == Cardinality(DOMAIN before)
         N == tmCall.n
     IN IF M <= N THEN store = before
        ELSE /\ Cardinality(DOMAIN store) = N
             /\ \A k \in DOMAIN store : k \in DOMAIN before /\ store[k] = before[k]
             /\ \A k \in DOMAIN store : \A r \in DOMAIN before \ DOMAIN store :
                  before[k].timestamp >= before[r].timestamp

\* ----------------------------------------------------------------------- C19
\* no call of the manager is under way
Quiescent == rPhase \in {"idle", "done"}

\* C19 (as claimed): at every quiescent point, whatever snapshots the runs of
\* executeRestructure and the restores have stored, storage holds at most
\* maxSnapshots of them.
C19_AtMostMaxSnapshots == Quiescent => Cardinality(DOMAIN store) <= maxSnapshots

\* ----------------------------------------------------------------------- C20
\* the temporary ids of a list, in the order its creates introduce them
TempIdsIntroduced(list) ==
  LET cs == SelectSeq(list, IsCreate) IN [i \in 1..Len(cs) |-> cs[i].tempId]

\* a list with its n-th temporary id written as the n-th id of the pool
NthTempId(id, order) ==
  IF id \in SeqToSet(order) THEN TempIds[IndexIn(order, id)] ELSE id

UpToTempIds(list) ==
  LET order == TempIdsIntroduced(list)
  IN [i \in 1..Len(list) |->
        [list[i] EXCEPT
           !.id = NthTempId(@, order),
           !.tempId = NthTempId(@, order),
           !.folder = IF @ = None THEN @
                      ELSE Some([@[1] EXCEPT !.parentId = NthTempId(@, order)]),
           !.data = IF @ = None THEN @
                    ELSE Some([@[1] EXCEPT !.parentId = NthTempId(@, order)]),
           !.destination = IF @ = None THEN @
                           ELSE Some([@[1] EXCEPT !.parentId = NthTempId(@, order)])]]

RECURSIVE NodesWithPaths(_, _)
NodesWithPaths(nodes, path) ==
  IF nodes = <<>> THEN {}
  ELSE LET node == Head(nodes)
           nodePath == JoinPath(path, node.title)
       IN {[id |-> node.id, title |-> node.title, path |-> nodePath]}
          \cup NodesWithPaths(node.children, nodePath)
          \cup NodesWithPaths(Tail(nodes), path)

NoTwoShareATitle(nodes) ==
  \A a, b \in NodesWithPaths(nodes, EmptyStr) : a.title = b.title => a.id = b.id

\* C21 (as claimed): for a tree in which no two nodes share a title, the Name
\* Index built by createNameToIdMapping maps every node's bare title to an entry
\* with that node's id, and every node's full path to an entry with that node's
\* id and that path.
C21_NameIndexRoundTrip ==
  (planSrc # <<>> /\ NoTwoShareATitle(planSrc))
  => LET index == createNameToIdMapping(planSrc, EmptyMap, EmptyStr)
     IN \A n \in NodesWithPaths(planSrc, EmptyStr) :
          /\ n.title \in DOMAIN index
          /\ index[n.title].id = n.id
          /\ n.path \in DOMAIN index
          /\ index[n.path].id = n.id
          /\ index[n.path].path = n.path

\* ----------------------------------------------------------------------- C22
\* the trimmed line ends with "/"
EndsWithSlash(tokens) == tokens[Len(tokens)] \in {"Docs/"}

\* the trimmed line without its trailing "/"
WithoutSlash(tokens) ==
  [i \in DOMAIN tokens |-> IF i = Len(tokens) /\ tokens[i] = "Docs/" THEN "Docs" ELSE tokens[i]]

LineHasHttp(tokens) == \E i \in DOMAIN tokens : HasHttp(tokens[i])

\* C22 (as claimed): parseStructureText makes a folder of a line exactly when its
\* trimmed text ends with "/", with the text before that marker as title; every
\* other line it makes a node of is a bookmark, without url when the line holds
\* no http:// or https:// token.
C22_FolderIffTrailingSlash ==
  parseDone =>
    \A i \in DOMAIN parsed :
      LET node == parsed[i]
      IN /\ node.type = "folder" <=> EndsWithSlash(node.line.tokens)
         /\ node.type = "folder" => node.title = WithoutSlash(node.line.tokens)
         /\ (node.type = "bookmark" /\ ~LineHasHttp(node.line.tokens)) => node.url = None

\* ----------------------------------------------------------------------- C23
\* the width of the leading whitespace of the line a node was made of
Width(node) == Len(node.line.indent)

\* the folder nodes before node i whose lines are indented strictly less
ShallowerFoldersBefore(i) ==
  {j \in 1..(i - 1) : parsed[j].type = "folder" /\ Width(parsed[j]) < Width(parsed[i])}

\* C23 (as claimed): parseStructureText attaches every node to the nearest
\* preceding folder line whose leading whitespace is strictly narrower than its
\* own, to the top level when there is none, whatever the widths and whether
\* tabs or spaces; no node is attached under a bookmark.
C23_ParentByIndentWidth ==
  parseDone =>
    \A i \in DOMAIN parsed :
      /\ parsed[i].parent =
           (IF ShallowerFoldersBefore(i) = {} THEN 0
            ELSE CHOOSE j \in ShallowerFoldersBefore(i) :
                   \A k \in ShallowerFoldersBefore(i) : k <= j)
      /\ parsed[i].parent # 0 => parsed[parsed[i].parent].type = "folder"

\* ----------------------------------------------------------------------- C24
\* the position of the first token of a line that holds http:// or https://
FirstHttp(tokens) == CHOOSE k \in DOMAIN tokens :
                       HasHttp(tokens[k]) /\ \A j \in 1..(k - 1) : ~HasHttp(tokens[j])

\* C24 (as claimed): for a line that holds an http:// or https:// token, the url
\* parsed is the whole rest of the trimmed line from that token on, embedded
\* spaces included, and the title parsed is the text before the token.
C24_UrlIsRestOfLine ==
  parseDone =>
    \A i \in DOMAIN parsed :
      LET tokens == parsed[i].line.tokens
      IN LineHasHttp(tokens) =>
           /\ parsed[i].url = Some(SubSeq(tokens, FirstHttp(tokens), Len(tokens)))
           /\ parsed[i].title = SubSeq(tokens, 1, FirstHttp(tokens) - 1)

\* ----------------------------------------------------------------------- C25
\* the repository call made last, seen in the state in which it has just been made
LastCall == calls[Len(calls)]
JustCalled(fn) ==
  /\ calls # <<>>
  /\ LastCall.fn = fn
  /\ execState = "rejected" \/ opIdx = LastCall.op + 1

\* an id as the temp-id map of the executor translates it
ThroughIdMap(id) == IF id \in DOMAIN idMap THEN idMap[id] ELSE id

\* C25: when a move operation is executed, repository.move is called with the
\* item id and the destination parentId each replaced by its real id when it is
\* a key of the executor's temp-id map and passed through otherwise, with the
\* destination index as given; the operation the caller handed over, its
\* destination included, is left as it was.
C25_MoveResolvesBothIds ==
  JustCalled("move") =>
    LET op == ops[LastCall.op]
    IN /\ op.type = "move"
       /\ LastCall.id = ThroughIdMap(op.id)
       /\ LastCall.parentId = ThroughIdMap(op.destination[1].parentId)
       /\ LastCall.index = op.destination[1].index
       /\ \E i \in DOMAIN given : given[i] = op

\* C25's case: a move to a folder created earlier in the run, whose temporary id
\* the call carries translated
C25_Witness ==
  /\ JustCalled("move")
  /\ LastCall.ok
  /\ ops[LastCall.op].destination[1].parentId \in DOMAIN idMap
  /\ LastCall.parentId # ops[LastCall.op].destination[1].parentId

\* ----------------------------------------------------------------------- C26
\* the operation at position k of the list as it was handed to execute, after
\* the sort and before any create rewrote its data.parentId
HandedOver(k) == SortOperations(given)[k]

\* calls[i] created a folder under the temporary id tmp, and no later call of
\* the run created another one under it
LatestCreateUnder(i, tmp) ==
  /\ calls[i].fn = "createFolder"
  /\ calls[i].ok
  /\ HandedOver(calls[i].op).tempId = tmp
  /\ \A k \in DOMAIN calls :
       (k > i /\ calls[k].fn = "createFolder" /\ calls[k].ok)
         => HandedOver(calls[k].op).tempId # tmp

CreateFolderStep ==
  /\ Len(calls') = Len(calls) + 1
  /\ calls'[Len(calls')].fn = "createFolder"

C26_CreateFolderAsClaimed ==
  LET op == ops[opIdx]
      d == op.data[1]
      call == calls'[Len(calls')]
  IN /\ call.title = d.title
     /\ call.parentId = ThroughIdMap(d.parentId)
     /\ call.ok =>
          /\ op.tempId # NoId => (op.tempId \in DOMAIN idMap' /\ idMap'[op.tempId] = call.id)
          /\ call.id \in folderIds'
          /\ \A i \in DOMAIN calls :
               (d.parentId # NoId /\ LatestCreateUnder(i, d.parentId))
                 => call.parentId = calls[i].id

\* C26: when a folder create operation is executed, its parentId is replaced by
\* the real id when it is a temporary id already resolved, createFolder is
\* called with the title and that parent, the returned id is recorded under the
\* operation's tempId and added to the known-folder set; so in a chain of nested
\* creates, parent before child, the child is created under the id its parent
\* received.
C26_FolderCreateResolvesParent == [][CreateFolderStep => C26_CreateFolderAsClaimed]_vars

\* C26's case: a folder created under the real id of a folder that an earlier
\* create of the same run made, the child naming its parent by temporary id
C26_Witness ==
  /\ JustCalled("createFolder")
  /\ LastCall.ok
  /\ \E i \in DOMAIN calls :
       /\ i < Len(calls)
       /\ LatestCreateUnder(i, HandedOver(LastCall.op).data[1].parentId)
       /\ LastCall.parentId = calls[i].id
       /\ LastCall.parentId \in DOMAIN live
       /\ LastCall.id \in SeqToSet(live[LastCall.parentId].kids)

\* ----------------------------------------------------------------------- C27
\* an operation the executor is to leave out: an unknown or missing type, a
\* create without data.title, a move without id or without destination.parentId,
\* a remove without id
Malformed(op) ==
  \/ op.type \notin {"create", "move", "remove"}
  \/ op.type = "create" /\ (op.data = None \/ op.data[1].title = NoTitle)
  \/ op.type = "move" /\ (op.id = NoId \/ op.destination = None
                          \/ op.destination[1].parentId = NoId)
  \/ op.type = "remove" /\ op.id = NoId

CalledFor(k) == \E i \in DOMAIN calls : calls[i].op = k

\* C27: an operation that fails validateOperation causes no repository call and
\* does not end the run: the loop goes on to the operations after it, each valid
\* one of which gets its repository call, and the run is rejected only by a
\* repository call that failed.
C27_InvalidOperationSkipped ==
  execState \in {"running", "resolved", "rejected"} =>
    /\ \A k \in DOMAIN ops : Malformed(ops[k]) => ~CalledFor(k)
    /\ \A k \in DOMAIN ops : (k < opIdx /\ ~Malformed(ops[k])) => CalledFor(k)
    /\ execState = "resolved" => opIdx > Len(ops)
    /\ execState = "rejected" =>
         /\ ~Malformed(ops[opIdx])
         /\ calls # <<>>
         /\ LastCall.op = opIdx
         /\ ~LastCall.ok

\* C27's case: a run that has ended with a malformed operation in the list and
\* the call of a valid operation that came after it made
C27_Witness ==
  /\ execState = "resolved"
  /\ \E k, n \in DOMAIN ops :
       /\ k < n
       /\ Malformed(ops[k])
       /\ ~Malformed(ops[n])
       /\ \E i \in DOMAIN calls : calls[i].op = n /\ calls[i].ok

\* ----------------------------------------------------------------------- C28
\* the temporary id tmp was registered by a create of the execute() call that is
\* running (or has just ended); otherwise it comes from an earlier call
RecordedInThisCall(tmp) ==
  \E i \in DOMAIN calls :
    /\ calls[i].fn \in {"create", "createFolder"}
    /\ calls[i].ok
    /\ HandedOver(calls[i].op).tempId = tmp

\* the step in which the create of the current operation succeeds
CreateSucceeds ==
  /\ Len(calls') = Len(calls) + 1
  /\ calls'[Len(calls')].fn \in {"create", "createFolder"}
  /\ calls'[Len(calls')].ok

\* the repository call of this step carries the ids of its operation as the
\* temp-id map held before the step translates them
CallUsesIdMap ==
  Len(calls') = Len(calls) + 1 =>
    LET op == ops[opIdx]
        call == calls'[Len(calls')]
    IN CASE op.type = "move" -> /\ call.id = ThroughIdMap(op.id)
                                /\ call.parentId = ThroughIdMap(op.destination[1].parentId)
         [] op.type = "remove" -> call.id = ThroughIdMap(op.id)
         [] op.type = "create" -> call.parentId = ThroughIdMap(op.data[1].parentId)
         [] OTHER -> FALSE

FolderIdsOnlyGrow ==
  /\ {"0", "1", "2", "3"} \subseteq folderIds
  /\ folderIds \subseteq folderIds'

\* C28 as stated: a mapping that a create of an earlier execute() call recorded
\* stays in the temp-id map as it was recorded and is what the moves, creates
\* and removes of every later call are translated with; the known-folder set
\* only grows and always holds "0", "1", "2", "3".
C28_MappingOfEarlierCallKept ==
  [][/\ \A tmp \in DOMAIN idMap :
          ~RecordedInThisCall(tmp) => (tmp \in DOMAIN idMap' /\ idMap'[tmp] = idMap[tmp])
     /\ CallUsesIdMap
     /\ FolderIdsOnlyGrow]_vars

\* C28: the temp-id map and the known-folder set live as long as the executor:
\* no key of the map is ever removed, starting an execute() call changes
\* neither, and the value of a key changes only when a create that carries that
\* key as its tempId succeeds, which replaces the mapping an earlier call
\* recorded; the moves, creates and removes of every call are translated with
\* the map as it stands; the known-folder set only grows and always holds
\* "0", "1", "2", "3".
C28_MappingKeptUntilRegisteredAgain ==
  [][/\ \A tmp \in DOMAIN idMap :
          /\ tmp \in DOMAIN idMap'
          /\ idMap'[tmp] # idMap[tmp] => (CreateSucceeds /\ ops[opIdx].tempId = tmp)
     /\ CallUsesIdMap
     /\ FolderIdsOnlyGrow]_vars

\* C28's case: a later execute() call on the same executor has moved a bookmark
\* into a folder that the first call created, named by its temporary id
C28_Witness ==
  /\ given \in LaterLists
  /\ JustCalled("move")
  /\ LastCall.ok
  /\ ops[LastCall.op].destination[1].parentId \in DOMAIN idMap
  /\ ~RecordedInThisCall(ops[LastCall.op].destination[1].parentId)
  /\ LastCall.parentId = idMap[ops[LastCall.op].destination[1].parentId]
  /\ LastCall.parentId \in folderIds \ {"0", "1", "2", "3"}

\* ----------------------------------------------------------------------- C29
\* the folders of a target structure in the order pass 1 meets them, each with
\* the title of the target folder that encloses it (None at top level)
RECURSIVE TargetFolders(_, _)
TargetFolders(structure, enclosing) ==
  IF structure = <<>> THEN <<>>
  ELSE LET item == Head(structure)
       IN (IF item.type = "folder"
           THEN <<[title |-> item.title, enclosing |-> enclosing]>>
                \o TargetFolders(item.children[1], Some(item.title))
           ELSE <<>>)
          \o TargetFolders(Tail(structure), enclosing)

\* the Name Index of the tree that was read, and what pass 1 returns for it
IndexOfSource == createNameToIdMapping(planSrc, EmptyMap, EmptyStr)
PassOne == createMissingFolders(planTarget, IndexOfSource)

CreatesOf(title) ==
  {i \in DOMAIN PassOne.operations :
     /\ PassOne.operations[i].type = "create"
     /\ PassOne.operations[i].folder[1].title = title}

\* the place at which pass 1 meets a folder of this title first
FirstMet(title) ==
  LET met == TargetFolders(planTarget, None)
  IN met[CHOOSE k \in DOMAIN met :
           /\ met[k].title = title
           /\ \A j \in DOMAIN met : met[j].title = title => k <= j]

\* C29: in pass 1 of planning, a target folder whose title is a key of the Name
\* Index yields no Create and is given the indexed id; a target folder whose
\* title is not a key yields exactly one Create, with a temporary id no other
\* Create and no node of the tree has, with parentId the id (real or temporary)
\* given to its enclosing target folder, or the root parent id "1" at top level,
\* and that temporary id is registered under the title; every target folder
\* title, new or not, is a key of the returned folders map.
C29_PassOneCreatesMissingFolders ==
  planDone =>
    LET met == TargetFolders(planTarget, None)
        ops1 == PassOne.operations
    IN /\ \A i \in DOMAIN ops1 :
            /\ ops1[i].type = "create"
            /\ \E k \in DOMAIN met : met[k].title = ops1[i].folder[1].title
       /\ \A k \in DOMAIN met :
            LET title == met[k].title
            IN /\ title \in DOMAIN PassOne.folders
               /\ title \in DOMAIN IndexOfSource =>
                    /\ CreatesOf(title) = {}
                    /\ PassOne.folders[title] = IndexOfSource[title].id
               /\ title \notin DOMAIN IndexOfSource =>
                    /\ Cardinality(CreatesOf(title)) = 1
                    /\ \A i \in CreatesOf(title) :
                         /\ ops1[i].tempId \in SeqToSet(TempIds)
                         /\ \A j \in DOMAIN ops1 : ops1[j].tempId = ops1[i].tempId => j = i
                         /\ \A n \in DOMAIN IndexOfSource : IndexOfSource[n].id # ops1[i].tempId
                         /\ ops1[i].folder[1].parentId =
                              (IF FirstMet(title).enclosing = None THEN "1"
                               ELSE PassOne.folders[FirstMet(title).enclosing[1]])
                         /\ PassOne.folders[title] = ops1[i].tempId
                         /\ title \in DOMAIN PassOne.map
                         /\ PassOne.map[title].id = ops1[i].tempId
                         /\ \E n \in DOMAIN planOps :
                              /\ planOps[n].type = "create"
                              /\ planOps[n].folder = Some([ops1[i].folder[1] EXCEPT
                                   !.parentId = planOps[n].folder[1].parentId])

\* C29's case: a plan whose target holds a folder that the tree has, a folder
\* that it lacks nested in another one that it lacks, and a title met twice
C29_Witness ==
  /\ planDone
  /\ LET met == TargetFolders(planTarget, None)
     IN /\ \E k \in DOMAIN met : met[k].title \in DOMAIN IndexOfSource
        /\ \E k \in DOMAIN met :
             /\ met[k].title \notin DOMAIN IndexOfSource
             /\ met[k].enclosing # None
             /\ met[k].enclosing[1] \notin DOMAIN IndexOfSource
        /\ \E k, j \in DOMAIN met : k # j /\ met[k].title = met[j].title

\* ----------------------------------------------------------------------- C30
IsTempId(id) == id \in SeqToSet(TempIds)

CreatesCarrying(list, id) ==
  {k \in DOMAIN list : list[k].type = "create" /\ list[k].tempId = id}

CreatesBeforeMovesIn(list) ==
  /\ \A i, j \in DOMAIN list :
       (list[i].type = "create" /\ list[j].type = "move") => i < j
  /\ \A i \in DOMAIN list :
       (list[i].type = "create" /\ IsTempId(list[i].folder[1].parentId))
         => \E k \in CreatesCarrying(list, list[i].folder[1].parentId) : k < i
  /\ \A i \in DOMAIN list :
       list[i].type = "move" =>
         \A id \in {list[i].id, list[i].destination[1].parentId} :
           IsTempId(id) => Cardinality(CreatesCarrying(list, id)) = 1

\* C30: in every list that simulateRestructure returns all creates come before
\* all moves, a create whose parentId is a temporary id comes after the create
\* that carries that id as its tempId, and every temporary id a move uses, as
\* the id of the item or as the destination parent, is the tempId of exactly one
\* create of the list.
C30_CreatesBeforeMoves ==
  /\ planDone => CreatesBeforeMovesIn(planOps)
  /\ planCalls = 2 => CreatesBeforeMovesIn(planAgain)

\* C30's case: a returned list with a create under a temporary parent, a move of
\* a folder named by its temporary id and a move into such a folder
C30_Witness ==
  /\ planDone
  /\ \E i \in DOMAIN planOps :
       planOps[i].type = "create" /\ IsTempId(planOps[i].folder[1].parentId)
  /\ \E i, j \in DOMAIN planOps :
       /\ planOps[i].type = "move" /\ IsTempId(planOps[i].id)
       /\ planOps[j].type = "move" /\ IsTempId(planOps[j].destination[1].parentId)

\* ----------------------------------------------------------------------- C31
\* the ids of the nodes of the tree that have a url
UrlIds == {id \in DOMAIN live : live[id].url # NoUrl}

\* the levels of a target structure: the items of each folder, with the title of
\* that folder (None for the top level)
RECURSIVE TargetLevels(_, _)
RECURSIVE LevelsBelow(_)
LevelsBelow(structure) ==
  IF structure = <<>> THEN <<>>
  ELSE LET item == Head(structure)
       IN (IF item.type = "folder" THEN TargetLevels(item.children[1], Some(item.title))
           ELSE <<>>)
          \o LevelsBelow(Tail(structure))

TargetLevels(structure, parent) ==
  <<[parent |-> parent, items |-> structure]>> \o LevelsBelow(structure)

\* the id planning has for a target item: the folders map or the Name Index for
\* a folder, the Name Index for a bookmark; None when it has none
PlannedId(item) ==
  IF item.type = "folder"
  THEN IF item.title \in DOMAIN PassOne.folders THEN Some(PassOne.folders[item.title]) ELSE None
  ELSE IF item.title \in DOMAIN PassOne.map THEN Some(PassOne.map[item.title].id) ELSE None

\* the returned list holds the move of id to parent p at index idx, the
\* temporary ids being those of the call
HasMove(list, id, p, idx) ==
  \E base \in TempBases :
    \E n \in DOMAIN list : list[n] = MoveOp(ShiftTempId(id, base), ShiftTempId(p, base), idx)

\* C31: no move that simulateRestructure returns has as destination parentId the
\* id of a node of the source tree that has a url; where the folder of a target
\* level was resolved to such a node, planning goes on and the moves of that
\* level, one for every item that has an id, go to parent "1".
C31_NoMoveIntoBookmark ==
  planDone =>
    /\ \A n \in DOMAIN planOps :
         planOps[n].type = "move" => planOps[n].destination[1].parentId \notin UrlIds
    /\ \A n \in DOMAIN planAgain :
         planAgain[n].type = "move" => planAgain[n].destination[1].parentId \notin UrlIds
    /\ LET levels == TargetLevels(planTarget, None)
       IN \A l \in DOMAIN levels :
            (levels[l].parent # None /\ PassOne.folders[levels[l].parent[1]] \in UrlIds)
              => \A k \in DOMAIN levels[l].items :
                   PlannedId(levels[l].items[k]) # None
                     => HasMove(planOps, PlannedId(levels[l].items[k])[1], "1", k - 1)

\* C31's case: a target folder named like a bookmark of the tree, with a bookmark
\* and a folder in it that are planned under "1"
C31_Witness ==
  /\ planDone
  /\ LET levels == TargetLevels(planTarget, None)
     IN \E l \in DOMAIN levels :
          /\ levels[l].parent # None
          /\ PassOne.folders[levels[l].parent[1]] \in UrlIds
          /\ \E k, j \in DOMAIN levels[l].items :
               /\ levels[l].items[k].type = "bookmark"
               /\ levels[l].items[j].type = "folder"
               /\ PlannedId(levels[l].items[k]) # None
               /\ HasMove(planOps, PlannedId(levels[l].items[k])[1], "1", k - 1)
               /\ HasMove(planOps, PlannedId(levels[l].items[j])[1], "1", j - 1)

\* ----------------------------------------------------------------------- C32
\* the items of a target structure in the order pass 2 walks them, each with its
\* 0-based position among its siblings
RECURSIVE ItemsDepthFirst(_, _)
ItemsDepthFirst(structure, k) ==
  IF k > Len(structure) THEN <<>>
  ELSE <<[item |-> structure[k], pos |-> k - 1]>>
       \o (IF structure[k].type = "folder"
           THEN ItemsDepthFirst(structure[k].children[1], 1) ELSE <<>>)
       \o ItemsDepthFirst(structure, k + 1)

HasPlannedId(e) == PlannedId(e.item) # None
IsMove(op) == op.type = "move"

\* the moves of list are, one for one and in order, those of the target items
\* that have an id, each with the position of its item as index
MovesFollowPositions(list) ==
  LET walked == SelectSeq(ItemsDepthFirst(planTarget, 1), HasPlannedId)
      moves == SelectSeq(list, IsMove)
  IN /\ Len(moves) = Len(walked)
     /\ \A i \in DOMAIN moves :
          /\ moves[i].destination[1].index = walked[i].pos
          /\ \E base \in TempBases :
               moves[i].id = ShiftTempId(PlannedId(walked[i].item)[1], base)

\* C32: a target bookmark whose title is not a key of the Name Index yields no
\* operation and planning goes on with the items after it; it still takes a
\* sibling position, so the move of the item at 0-based position k of a target
\* level carries destination index k.
C32_IndexIsSiblingPosition ==
  /\ planDone => MovesFollowPositions(planOps)
  /\ planCalls = 2 => MovesFollowPositions(planAgain)

\* C32's case: a target level whose first item is a bookmark the tree lacks and
\* whose second item is moved with index 1
C32_Witness ==
  /\ planDone
  /\ LET levels == TargetLevels(planTarget, None)
     IN \E l \in DOMAIN levels :
          \E k, j \in DOMAIN levels[l].items :
            /\ k < j
            /\ levels[l].items[k].type = "bookmark"
            /\ levels[l].items[k].title \notin DOMAIN IndexOfSource
            /\ PlannedId(levels[l].items[j]) # None
            /\ \E n \in DOMAIN planOps :
                 /\ planOps[n].type = "move"
                 /\ planOps[n].destination[1].index = j - 1
                 /\ \E base \in TempBases :
                      planOps[n].id = ShiftTempId(PlannedId(levels[l].items[j])[1], base)

\* ----------------------------------------------------------------------- C33
\* the nodes of a tree in the order createNameToIdMapping visits them
RECURSIVE NodesInVisitOrder(_, _)
NodesInVisitOrder(nodes, path) ==
  IF nodes = <<>> THEN <<>>
  ELSE LET node == Head(nodes)
           nodePath == JoinPath(path, node.title)
       IN <<[id |-> node.id, title |-> node.title, path |-> nodePath]>>
          \o NodesInVisitOrder(node.children, nodePath)
          \o NodesInVisitOrder(Tail(nodes), path)

\* C33 (as claimed): when two nodes of the source tree share a bare title, the
\* bare-title key of the Name Index holds the entry of the one visited later,
\* and the full-path key of each of them maps to that node's own id.
C33_PathKeysStayOwn ==
  planSrc # <<>> =>
    LET visited == NodesInVisitOrder(planSrc, EmptyStr)
    IN \A a, b \in DOMAIN visited :
         (a < b /\ visited[a].title = visited[b].title)
           => /\ IndexOfSource[visited[a].title].id =
                   visited[CHOOSE k \in DOMAIN visited :
                             /\ visited[k].title = visited[a].title
                             /\ \A j \in DOMAIN visited :
                                  visited[j].title = visited[a].title => j <= k].id
              /\ IndexOfSource[visited[a].path].id = visited[a].id
              /\ IndexOfSource[visited[b].path].id = visited[b].id

\* ----------------------------------------------------------------------- C34
ReservedTitles == {live[id].title : id \in ReservedIds \cap DOMAIN live}

\* C34 (as claimed): whatever the source tree and the target, simulateRestructure
\* returns no move whose item id is one of the reserved ids "0", "1", "2", "3"
\* and no create of a folder with the title of a reserved folder, a target
\* folder that carries the title of a reserved folder included.
C34_ReservedNeverPlanned ==
  planDone =>
    \A n \in DOMAIN planOps :
      /\ planOps[n].type = "move" => planOps[n].id \notin ReservedIds
      /\ planOps[n].type = "create" => planOps[n].folder[1].title \notin ReservedTitles

\* ----------------------------------------------------------------------- C35
\* the step in which a createSnapshot call resolves
SnapshotResolves ==
  /\ tmCall'.seq = tmCall.seq + 1
  /\ tmCall'.fn = "createSnapshot"
  /\ tmReturn'.kind = "returned"

\* the names new Date().toLocaleString() gives after "Snapshot "
StartsWithSnapshot(name) == name \in {"Snapshot <date>"}

CallsOfStep == SubSeq(rLog', Len(rLog) + 1, Len(rLog'))
MovesOfStep == {i \in DOMAIN CallsOfStep : CallsOfStep[i].fn = "move"}

\* restoreBookmarkNode handles a node that is in the live tree and that getById
\* has found
RestoresLiveNode ==
  /\ rPhase = "walk"
  /\ rWork # <<>>
  /\ rWork' = Tail(rWork)
  /\ Exists(live, Head(rWork).node.id)
  /\ \A i \in DOMAIN CallsOfStep : CallsOfStep[i].fn # "create"

\* C36 (as claimed): during a restore a live node whose parentId is the parent it
\* has in the snapshot gets no move call, whatever its index; a live node whose
\* parent differs gets exactly one move call, to the snapshot parent at the
\* snapshot index.
C36_MoveIffParentDiffers ==
  [][RestoresLiveNode =>
       LET node == Head(rWork).node
           p == Head(rWork).parentId
       IN IF live[node.id].parentId = p
          THEN MovesOfStep = {}
          ELSE /\ Cardinality(MovesOfStep) = 1
               /\ \A i \in MovesOfStep :
                    /\ CallsOfStep[i].id = node.id
                    /\ CallsOfStep[i].parentId = p
                    /\ CallsOfStep[i].index = node.index]_vars

\* ----------------------------------------------------------------------- C37
\* a create as simulateRestructure emits it
IsPlannedCreate(op) == op.type = "create" /\ op.folder # None

\* C37 (as claimed): every create that simulateRestructure emits passes
\* validateOperation and, once the run has gone past it, has had its one
\* createFolder call with the planned title and parent, its tempId being recorded
\* for the moves that refer to it; no planned create is skipped as invalid.
C37_PlannedCreatesExecuted ==
  \A k \in DOMAIN ops :
    (pc # "idle" /\ IsPlannedCreate(ops[k])) =>
      /\ validateOperation(ops[k])
      /\ (execState \in {"running", "resolved"} /\ opIdx > k) =>
           /\ \E i \in DOMAIN calls :
                /\ calls[i].op = k
                /\ calls[i].fn = "createFolder"
                /\ calls[i].title = ops[k].folder[1].title
           /\ ops[k].tempId \in DOMAIN idMap


\* ----------------------------------------------------------------------- C38
\* C38 (as claimed): no step of restoreSnapshot takes out of the live tree a
\* node whose id appears in the tree of the snapshot being restored, whether or
\* not update, move or create calls of the walk failed: removing a folder that
\* is not in the snapshot never removes a snapshot node still under it.
C38_SnapshotNodesSurviveRestore ==
  [][(rPhase \in {"walk", "remove"}) =>
       (\A id \in DOMAIN live :
          id \in TreeIds(rTarget.tree) => id \in DOMAIN live')]_vars


\* ----------------------------------------------------------------------- C39
\* C39 (as claimed): no Move returned by simulateRestructure has an item id
\* equal to its own destination parentId, for any source tree and any target
\* structure, also when a folder title recurs among the folder's descendants.
C39_NoMoveIntoItself ==
  \A n \in DOMAIN planOps :
    IsMove(planOps[n]) => planOps[n].id # planOps[n].destination[1].parentId

====
